---- MODULE Spec2Model ----
(***************************************************************************)
(* Model of the resume-generator workflow: the shared WorkflowState, the   *)
(* four stage agents of create_cover_letter_workflow and the deterministic *)
(* helpers of the generator agents.                                        *)
(*                                                                         *)
(* Conventions.                                                            *)
(*  - An optional value (T | None) is NoneVal or Some(v).                  *)
(*  - A Python string built by an f-string is the sequence of its chunks:  *)
(*    f"Job search failed: {e}" is <<"Job search", " failed: ", msg>>; a   *)
(*    string literal is a one-chunk sequence.                              *)
(*  - A JSON value is a tagged record (JNull, JStr, JNum, JArr, JObj).     *)
(*  - A call that may raise evaluates to Ok(v) or Raise(cls, msg).         *)
(*  - Floats are exact rationals <<numerator, denominator>>; match scores  *)
(*    are counted in tenths (0.9 is 9).                                    *)
(***************************************************************************)
EXTENDS Integers, Sequences, FiniteSets, TLC

VARIABLES state, pc, invoked, escaped, prev, calls, fin, fout

vars == <<state, pc, invoked, escaped, prev, calls, fin, fout>>

(***************************************************************************)
(* Bounds of the model.                                                    *)
(***************************************************************************)
MaxJobs == 2
MaxMatches == 3

(***************************************************************************)
(* Basic values.                                                           *)
(***************************************************************************)
NoneVal == [set |-> FALSE]
Some(v) == [set |-> TRUE, val |-> v]

Ok(v) == [ok |-> TRUE, val |-> v]
Raise(cls, msg) == [ok |-> FALSE, cls |-> cls, msg |-> msg]

JNull == [j |-> "null"]
JStr(s) == [j |-> "string", v |-> s]
JNum(n) == [j |-> "number", v |-> n]
JBool(b) == [j |-> "bool", v |-> b]
JArr(items) == [j |-> "array", v |-> items]
JObj(fields) == [j |-> "object", v |-> fields]
EmptyObj == JObj([k \in {} |-> JNull])

Min(a, b) == IF a <= b THEN a ELSE b

RECURSIVE GCD(_, _)
GCD(a, b) == IF b = 0 THEN a ELSE GCD(b, a % b)

\* the rational n/d (n >= 0, d > 0) in lowest terms
Rat(n, d) == LET g == GCD(n, d) IN <<n \div g, d \div g>>

\* a >= b for rationals
RatGeq(a, b) == a[1] * b[2] >= b[1] * a[2]

\* Python truthiness of an optional string, an optional list, an optional object
TruthyStrMutant(x) == x.set
TruthyStr(x) == x.set /\ x.val # ""
TruthyList(x) == x.set /\ x.val # <<>>
TruthyObj(x) == x.set

(***************************************************************************)
(* Exceptions.  Every class the stages can meet derives from Exception.    *)
(***************************************************************************)
ExceptionSubclasses ==
    {"ConnectionError", "JSONDecodeError", "AttributeError", "ValidationError",
     "ValueError", "TypeError"}

\* dict.get(key, default) on a decoded JSON value; only a dict has .get
Get(d, key, default) ==
    IF d.j # "object" THEN Raise("AttributeError", "object has no attribute 'get'")
    ELSE IF key \in DOMAIN d.v THEN Ok(d.v[key]) ELSE Ok(default)

\* json.loads of a reply text (a sequence of tokens): exactly one JSON document
json_loads_mutant(content) ==
    IF Len(content) = 1 /\ content[1].t = "json" THEN Ok(content[1].v) ELSE Ok(EmptyObj)
json_loads(content) ==
    IF Len(content) = 1 /\ content[1].t = "json" THEN Ok(content[1].v)
    ELSE Raise("JSONDecodeError", "Expecting value")

(***************************************************************************)
(* Profile extractor (agents/profile_extractor.py).                        *)
(***************************************************************************)
IsStr(v) == v.j = "string"
IsOptStr(v) == v.j \in {"null", "string"}
IsStrList(v) == v.j = "array" /\ \A i \in 1..Len(v.v) : v.v[i].j = "string"
StrList(v) == [i \in 1..Len(v.v) |-> v.v[i].v]
OptStr(v) == IF v.j = "null" THEN NoneVal ELSE Some(v.v)

\* "for x in value": a list yields its items, a non-empty str yields
\* one-character strings, an empty str or dict yields nothing, anything else
\* is not iterable
Iterate(v) ==
    IF v.j = "array" THEN Ok(v.v)
    ELSE IF v.j = "string" THEN Ok(IF v.v = "" THEN <<>> ELSE <<JStr(v.v)>>)
    ELSE IF v.j = "object" /\ DOMAIN v.v = {} THEN Ok(<<>>)
    ELSE IF v.j = "object" THEN Ok(<<JStr("key")>>)
    ELSE Raise("TypeError", "object is not iterable")

\* one Experience(...) construction: exp_data.get(...) then pydantic validation
parse_experience(exp_data) ==
    LET company == Get(exp_data, "company", JStr(""))
        position == Get(exp_data, "position", JStr(""))
        description == Get(exp_data, "description", JStr(""))
        technologies_used == Get(exp_data, "technologies_used", JArr(<<>>))
    IN IF ~company.ok THEN company
       ELSE IF IsStr(company.val) /\ IsStr(position.val) /\ IsStr(description.val)
               /\ IsStrList(technologies_used.val)
       THEN Ok([company |-> company.val.v,
                position |-> position.val.v,
                description |-> description.val.v,
                technologies_used |-> StrList(technologies_used.val)])
       ELSE Raise("ValidationError", "validation error for Experience")

RECURSIVE parse_experience_list(_)
parse_experience_list(items) ==
    IF items = <<>> THEN Ok(<<>>)
    ELSE LET first == parse_experience(Head(items)) IN
         IF ~first.ok THEN first
         ELSE LET rest == parse_experience_list(Tail(items)) IN
              IF ~rest.ok THEN rest ELSE Ok(<<first.val>> \o rest.val)

parse_profile_data(data) ==
    LET contact_data == Get(data, "contact_info", EmptyObj) IN
    IF ~contact_data.ok THEN contact_data
    ELSE
    LET email == Get(contact_data.val, "email", JStr(""))
        location == Get(contact_data.val, "location", JNull)
    IN
    IF ~email.ok THEN email
    ELSE IF ~(IsStr(email.val) /\ IsOptStr(location.val))
    THEN Raise("ValidationError", "validation error for ContactInfo")
    ELSE
    LET exp_iter == Iterate(Get(data, "experience", JArr(<<>>)).val) IN
    IF ~exp_iter.ok THEN exp_iter
    ELSE
    LET experience_list == parse_experience_list(exp_iter.val) IN
    IF ~experience_list.ok THEN experience_list
    ELSE
    LET full_name == Get(data, "full_name", JStr("")).val
        skills == Get(data, "skills", JArr(<<>>)).val
    IN
    IF ~(IsStr(full_name) /\ IsStrList(skills))
    THEN Raise("ValidationError", "validation error for UserProfile")
    ELSE Ok([full_name |-> full_name.v,
             contact_info |-> [email |-> email.val.v, location |-> OptStr(location.val)],
             skills |-> StrList(skills),
             experience |-> experience_list.val])

\* one external call made by a node, with what the capability answered
Call(node, answer) == [node |-> node, answer |-> answer]

\* the result of one stage invocation: whether an exception left the stage,
\* the state it returned and the external calls it made
Returned(s, ext) == [escaped |-> FALSE, state |-> s, calls |-> ext]
Propagated(s, ext) == [escaped |-> TRUE, state |-> s, calls |-> ext]

AppendErrorMutant(s, err) == [s EXCEPT !.errors = <<err>>]
AppendError(s, err) == [s EXCEPT !.errors = @ \o <<err>>]
AppendStepMutant(s, name) == s
AppendStep(s, name) == [s EXCEPT !.step_completed = @ \o <<name>>]

\* state["user_profile"] = ..., "job_matches": ..., state["job_skill_matches"] = ...,
\* state["generated_cover_letters"] = ...
set_user_profile(s, v) == [s EXCEPT !.user_profile = Some(v)]
set_job_matches(s, v) == [s EXCEPT !.job_matches = Some(v)]
set_job_skill_matches_mutant(s, v) == [s EXCEPT !.job_skill_matches = Some(v), !.job_matches = NoneVal]
set_job_skill_matches(s, v) == [s EXCEPT !.job_skill_matches = Some(v)]
set_generated_cover_letters(s, v) == [s EXCEPT !.generated_cover_letters = Some(v)]

\* "except Exception as e": the classes the handler of a stage catches
CaughtMutant(cls) == cls = "JSONDecodeError"
Caught(cls) == cls \in ExceptionSubclasses

\* the try body of extract_profile after the missing-input guard
extract_profile_body(s, reply) ==
    IF reply.kind = "raise" THEN Raise(reply.cls, reply.msg)
    ELSE LET profile_data == json_loads(reply.content) IN
         IF ~profile_data.ok THEN profile_data
         ELSE LET user_profile == parse_profile_data(profile_data.val) IN
              IF ~user_profile.ok THEN user_profile
              ELSE Ok(AppendStep(set_user_profile(s, user_profile.val), "profile_extraction"))

extract_profile(s, reply) ==
    IF ~TruthyStr(s.user_profile_raw)
    THEN Returned(AppendError(s, <<"No user profile data provided">>), <<>>)
    ELSE LET r == extract_profile_body(s, reply) IN
         IF r.ok THEN Returned(r.val, <<Call("extract_profile", reply)>>)
         ELSE IF Caught(r.cls)
         THEN Returned(AppendError(s, <<"Profile extraction", " error: ", r.msg>>),
                       <<Call("extract_profile", reply)>>)
         ELSE Propagated(s, <<Call("extract_profile", reply)>>)

(***************************************************************************)
(* Job search (agents/job_search.py).                                      *)
(***************************************************************************)
Take(seq, n) == SubSeq(seq, 1, Min(Len(seq), n))

Range(seq) == {seq[i] : i \in 1..Len(seq)}

RECURSIVE Flatten(_)
Flatten(seqs) == IF seqs = <<>> THEN <<>> ELSE Head(seqs) \o Flatten(Tail(seqs))

\* str.strip() on the strings of the model
Strip(str) ==
    CASE str = " AWS" -> "AWS"
      [] str = "  " -> ""
      [] OTHER -> str

\* str.lower() on the strings of the model
Lower(str) ==
    CASE str = "Remote" -> "remote"
      [] str = "Berlin" -> "berlin"
      [] str = "Anywhere" -> "anywhere"
      [] str = "WFH" -> "wfh"
      [] str = "Work" -> "work"
      [] str = "Python" -> "python"
      [] str = "AWS" -> "aws"
      [] str = "Docker" -> "docker"
      [] str = "Java" -> "java"
      [] str = "Script" -> "script"
      [] OTHER -> str

\* every ordering of a finite set: the orders list(set(...)) can produce
Orderings(S) ==
    {q \in [1..Cardinality(S) -> S] : \A i, k \in 1..Cardinality(S) : q[i] = q[k] => i = k}

\* candidates taken from every profile skill instead of the first five
keyword_candidates_mutant(user_profile) ==
    LET recent == Take(user_profile.experience, 2)
        keywords == user_profile.skills
                    \o [i \in 1..Len(recent) |-> recent[i].position]
                    \o Flatten([i \in 1..Len(recent) |-> Take(recent[i].technologies_used, 3)])
    IN {Strip(keywords[i]) : i \in {k \in 1..Len(keywords) : Strip(keywords[k]) # ""}}

\* the keywords before "list(set(...))": the stripped non-empty candidates
keyword_candidates(user_profile) ==
    LET recent == Take(user_profile.experience, 2)
        keywords == Take(user_profile.skills, 5)
                    \o [i \in 1..Len(recent) |-> recent[i].position]
                    \o Flatten([i \in 1..Len(recent) |-> Take(recent[i].technologies_used, 3)])
    IN {Strip(keywords[i]) : i \in {k \in 1..Len(keywords) : Strip(keywords[k]) # ""}}

\* the lists _generate_search_keywords can return: any order of the set, cut at 10
generate_search_keywords(user_profile) ==
    {Take(q, 10) : q \in Orderings(keyword_candidates(user_profile))}

remote_indicators == {<<"remote">>, <<"work", "from", "home">>, <<"wfh">>, <<"anywhere">>, <<"virtual">>}

\* a text is the sequence of its words; "indicator in text" is a contiguous match
Contains(text, pattern) ==
    \E i \in 0..(Len(text) - Len(pattern)) :
        \A k \in 1..Len(pattern) : text[i + k] = pattern[k]

LowerText(text) == [i \in 1..Len(text) |-> Lower(text[i])]

is_remote_job(row) ==
    \E indicator \in remote_indicators :
        \/ Contains(LowerText(row.location), indicator)
        \/ Contains(LowerText(row.description), indicator)

DescriptionLimit == 500

to_job_listing(row) ==
    [title |-> row.title,
     company |-> row.company,
     location |-> row.location,
     description |-> Take(row.description, DescriptionLimit),
     is_remote |-> is_remote_job(row)]

\* results_wanted = state.get("max_results") or 20
DefaultMaxResults == 20

JobMatchesMutant(location, search_keywords, is_remote_search, job_listings) ==
    [search_location |-> location,
     search_keywords |-> search_keywords,
     is_remote_search |-> is_remote_search,
     jobs |-> job_listings,
     total_results |-> DefaultMaxResults]
JobMatches(location, search_keywords, is_remote_search, job_listings) ==
    [search_location |-> location,
     search_keywords |-> search_keywords,
     is_remote_search |-> is_remote_search,
     jobs |-> job_listings,
     total_results |-> Len(job_listings)]

\* the try body of search_jobs after the missing-input guard
search_jobs_body(s, result, search_keywords) ==
    LET user_profile == s.user_profile.val
        location == IF TruthyStr(s.job_search_location) THEN s.job_search_location.val
                    ELSE IF TruthyStr(user_profile.contact_info.location)
                    THEN user_profile.contact_info.location.val
                    ELSE "Remote"
        is_remote_search == Lower(location) \in {"remote", "anywhere", "global"}
    IN
    IF result.kind = "raise" THEN Raise(result.cls, result.msg)
    ELSE LET job_listings == IF result.kind = "df" /\ result.rows # <<>>
                             THEN [i \in 1..Len(result.rows) |-> to_job_listing(result.rows[i])]
                             ELSE <<>>
             job_matches == JobMatches(location, search_keywords, is_remote_search, job_listings)
         IN Ok(AppendStep(set_job_matches(s, job_matches), "job_search"))

JobSearchError(msg) == <<"Job search", " failed: ", msg>>

search_jobs(s, result, search_keywords) ==
    IF ~TruthyObj(s.user_profile)
    THEN Returned(AppendError(s, <<"User profile not found for job search">>), <<>>)
    ELSE LET r == search_jobs_body(s, result, search_keywords) IN
         IF r.ok THEN Returned(r.val, <<Call("search_jobs", result)>>)
         ELSE IF Caught(r.cls)
         THEN Returned(AppendError(s, JobSearchError(r.msg)), <<Call("search_jobs", result)>>)
         ELSE Propagated(s, <<Call("search_jobs", result)>>)

(***************************************************************************)
(* Skills matcher (agents/skills_matcher.py).                              *)
(***************************************************************************)
\* match_score = Field(ge=0.0, le=1.0), counted in tenths
MinScore == 0
MaxScore == 10

RECURSIVE LStrip(_)
LStrip(content) ==
    IF content # <<>> /\ Head(content).t = "ws" THEN LStrip(Tail(content)) ELSE content

RECURSIVE RStrip(_)
RStrip(content) ==
    IF content # <<>> /\ content[Len(content)].t = "ws"
    THEN RStrip(SubSeq(content, 1, Len(content) - 1)) ELSE content

StripText(content) == RStrip(LStrip(content))

\* strip(), drop a leading ```json, drop a trailing ```, strip()
clean_response(response_content) ==
    LET stripped == StripText(response_content)
        unprefixed == IF stripped # <<>> /\ Head(stripped).t = "fence_json"
                      THEN Tail(stripped) ELSE stripped
        unsuffixed == IF unprefixed # <<>> /\ unprefixed[Len(unprefixed)].t = "fence"
                      THEN SubSeq(unprefixed, 1, Len(unprefixed) - 1) ELSE unprefixed
    IN StripText(unsuffixed)

\* SkillMatch(...) without the Field(ge=0.0, le=1.0) bounds
make_skill_match_mutant(match_data) ==
    IF match_data.j # "object" THEN Raise("AttributeError", "object has no attribute 'get'")
    ELSE LET skill == Get(match_data, "skill", JStr(""))
             user_has_skill == Get(match_data, "user_has_skill", JBool(FALSE))
             match_score == Get(match_data, "match_score", JNum(0))
         IN IF ~(skill.val.j = "string" /\ user_has_skill.val.j = "bool"
                 /\ match_score.val.j = "number")
            THEN Raise("ValidationError", "validation error for SkillMatch")
            ELSE Ok([skill |-> skill.val.v,
                     user_has_skill |-> user_has_skill.val.v,
                     match_score |-> match_score.val.v])

\* SkillMatch(...) from one element of the decoded array
make_skill_match(match_data) ==
    LET skill == Get(match_data, "skill", JStr(""))
        user_has_skill == Get(match_data, "user_has_skill", JBool(FALSE))
        match_score == Get(match_data, "match_score", JNum(0))
    IN IF ~skill.ok THEN skill
       ELSE IF match_score.val.j = "string" THEN Raise("ValueError", "could not convert string to float")
       ELSE IF match_score.val.j \notin {"number", "bool"}
       THEN Raise("TypeError", "float() argument must be a string or a real number")
       ELSE LET \* float(True) is 1.0 and float(False) is 0.0
                score == IF match_score.val.j = "bool"
                         THEN (IF match_score.val.v THEN MaxScore ELSE 0)
                         ELSE match_score.val.v
            IN IF ~(skill.val.j = "string" /\ user_has_skill.val.j = "bool"
                    /\ score >= MinScore /\ score <= MaxScore)
               THEN Raise("ValidationError", "validation error for SkillMatch")
               ELSE Ok([skill |-> skill.val.v,
                        user_has_skill |-> user_has_skill.val.v,
                        match_score |-> score])

\* the validation loop: an element that fails is skipped
\* a loop that stops at the first element that fails
RECURSIVE convert_matches_mutant(_)
convert_matches_mutant(matches_data) ==
    IF matches_data = <<>> THEN <<>>
    ELSE LET skill_match == make_skill_match(Head(matches_data)) IN
         IF skill_match.ok THEN <<skill_match.val>> \o convert_matches_mutant(Tail(matches_data))
         ELSE <<>>

RECURSIVE convert_matches(_)
convert_matches(matches_data) ==
    IF matches_data = <<>> THEN <<>>
    ELSE LET skill_match == make_skill_match(Head(matches_data)) IN
         IF skill_match.ok THEN <<skill_match.val>> \o convert_matches(Tail(matches_data))
         ELSE convert_matches(Tail(matches_data))

\* a parser that lets the decoding failure leave the function
analyze_skill_matches_for_job_mutant(reply) ==
    IF reply.kind = "raise" THEN Raise(reply.cls, reply.msg)
    ELSE LET matches_data == json_loads(clean_response(reply.content)) IN
         IF ~matches_data.ok THEN matches_data
         ELSE IF matches_data.val.j # "array" THEN Raise("ValueError", "Response is not a JSON array")
         ELSE Ok(convert_matches(matches_data.val.v))

analyze_skill_matches_for_job(reply) ==
    IF reply.kind = "raise" THEN Raise(reply.cls, reply.msg)
    ELSE LET matches_data == json_loads(clean_response(reply.content)) IN
         IF ~matches_data.ok THEN Ok(<<>>)
         ELSE IF matches_data.val.j # "array" THEN Ok(<<>>)
         ELSE Ok(convert_matches(matches_data.val.v))

\* the loop over job_matches.jobs: Ok(entries) or the first exception raised,
\* with the number of LLM calls made
\* a loop that keeps the entries computed before the first exception
RECURSIVE match_jobs_mutant(_, _)
match_jobs_mutant(jobs, replies) ==
    IF jobs = <<>> THEN [r |-> Ok(<<>>), n |-> 0]
    ELSE LET skill_matches == analyze_skill_matches_for_job(Head(replies)) IN
         IF ~skill_matches.ok THEN [r |-> Ok(<<>>), n |-> 1]
         ELSE LET rest == match_jobs_mutant(Tail(jobs), Tail(replies)) IN
              [r |-> Ok(<<[job_listing |-> Head(jobs), skill_matches |-> skill_matches.val]>>
                        \o rest.r.val),
               n |-> rest.n + 1]

RECURSIVE match_jobs(_, _)
match_jobs(jobs, replies) ==
    IF jobs = <<>> THEN [r |-> Ok(<<>>), n |-> 0]
    ELSE LET skill_matches == analyze_skill_matches_for_job(Head(replies)) IN
         IF ~skill_matches.ok THEN [r |-> skill_matches, n |-> 1]
         ELSE LET rest == match_jobs(Tail(jobs), Tail(replies)) IN
              IF ~rest.r.ok THEN [r |-> rest.r, n |-> rest.n + 1]
              ELSE [r |-> Ok(<<[job_listing |-> Head(jobs), skill_matches |-> skill_matches.val]>>
                             \o rest.r.val),
                    n |-> rest.n + 1]

\* the first n replies were consumed by node
LlmCalls(node, replies, n) == [i \in 1..n |-> Call(node, replies[i])]

\* a guard that lets the stage run on a state without job_matches
match_skills_mutant(s, replies) ==
    IF ~TruthyObj(s.user_profile)
    THEN Returned(AppendError(s, <<"Missing user profile or job matches for skills matching">>), <<>>)
    ELSE LET m == match_jobs(IF s.job_matches.set THEN s.job_matches.val.jobs ELSE <<>>, replies) IN
         IF m.r.ok
         THEN Returned(AppendStep(set_job_skill_matches(s, m.r.val), "skills_matching"),
                       LlmCalls("match_skills", replies, m.n))
         ELSE IF Caught(m.r.cls)
         THEN Returned(AppendError(s, <<"Skills matching", " error: ", m.r.msg>>), LlmCalls("match_skills", replies, m.n))
         ELSE Propagated(s, LlmCalls("match_skills", replies, m.n))

match_skills(s, replies) ==
    IF ~TruthyObj(s.user_profile) \/ ~TruthyObj(s.job_matches)
    THEN Returned(AppendError(s, <<"Missing user profile or job matches for skills matching">>), <<>>)
    ELSE LET m == match_jobs(s.job_matches.val.jobs, replies) IN
         IF m.r.ok
         THEN Returned(AppendStep(set_job_skill_matches(s, m.r.val), "skills_matching"),
                       LlmCalls("match_skills", replies, m.n))
         ELSE IF Caught(m.r.cls)
         THEN Returned(AppendError(s, <<"Skills matching", " error: ", m.r.msg>>), LlmCalls("match_skills", replies, m.n))
         ELSE Propagated(s, LlmCalls("match_skills", replies, m.n))

(***************************************************************************)
(* Match percentage (agents/resume_generator.py and                        *)
(* agents/cover_letter_generator.py).  A score s in tenths is the float    *)
(* s / MaxScore, so (total / count) * 100 is total * 100 / (MaxScore *     *)
(* count).                                                                 *)
(***************************************************************************)
RECURSIVE SumScores(_)
SumScores(skill_matches) ==
    IF skill_matches = <<>> THEN 0
    ELSE (IF Head(skill_matches).user_has_skill THEN Head(skill_matches).match_score ELSE 0)
         + SumScores(Tail(skill_matches))

RECURSIVE SumAllScores(_)
SumAllScores(skill_matches) ==
    IF skill_matches = <<>> THEN 0
    ELSE Head(skill_matches).match_score + SumAllScores(Tail(skill_matches))

resume_calculate_match_percentage_mutant(skill_matches) ==
    IF skill_matches = <<>> THEN Rat(0, 1)
    ELSE Rat(SumAllScores(skill_matches) * 100, MaxScore * Len(skill_matches))

resume_calculate_match_percentage(skill_matches) ==
    IF skill_matches = <<>> THEN Rat(0, 1)
    ELSE LET total_score == SumScores(skill_matches)
             max_possible_score == Len(skill_matches)
         IN IF max_possible_score > 0
            THEN Rat(total_score * 100, MaxScore * max_possible_score)
            ELSE Rat(0, 1)

cover_letter_calculate_match_percentage(skill_matches) ==
    IF skill_matches = <<>> THEN Rat(0, 1)
    ELSE LET total_score == SumScores(skill_matches)
             max_possible_score == Len(skill_matches)
         IN IF max_possible_score > 0
            THEN Rat(total_score * 100, MaxScore * max_possible_score)
            ELSE Rat(0, 1)

(***************************************************************************)
(* Cover letter generator (agents/cover_letter_generator.py).              *)
(***************************************************************************)
SkillsOf(skill_matches) == [i \in 1..Len(skill_matches) |-> skill_matches[i].skill]

\* a note is its literal text and the skills joined into it
Note(text, skills) == [text |-> text, skills |-> skills]

cover_letter_generate_tailoring_notes_mutant(skill_matches, job_listing) ==
    LET IsMissing(m) == ~m.user_has_skill /\ m.match_score < 3
        IsStrong(m) == m.user_has_skill /\ m.match_score > 8
        missing_skills == SkillsOf(SelectSeq(skill_matches, IsMissing))
        strong_matches == SkillsOf(SelectSeq(skill_matches, IsStrong))
    IN (IF missing_skills # <<>>
        THEN <<Note("Consider highlighting transferable skills or learning interest in: ",
                    Take(missing_skills, 3))>>
        ELSE <<>>)
       \o (IF strong_matches # <<>>
           THEN <<Note("Emphasize these strong skill matches in your cover letter: ",
                       Take(strong_matches, 3))>>
           ELSE <<>>)
       \o <<Note("Research {company}'s recent news, values, and culture to personalize your letter",
                 <<job_listing.company>>)>>
       \o <<Note("Consider following up within 1-2 weeks if you don't hear back", <<>>)>>

cover_letter_generate_tailoring_notes(skill_matches, job_listing) ==
    LET IsMissing(m) == ~m.user_has_skill /\ m.match_score < 3
        IsStrong(m) == m.user_has_skill /\ m.match_score >= 8
        missing_skills == SkillsOf(SelectSeq(skill_matches, IsMissing))
        strong_matches == SkillsOf(SelectSeq(skill_matches, IsStrong))
    IN (IF missing_skills # <<>>
        THEN <<Note("Consider highlighting transferable skills or learning interest in: ",
                    Take(missing_skills, 3))>>
        ELSE <<>>)
       \o (IF strong_matches # <<>>
           THEN <<Note("Emphasize these strong skill matches in your cover letter: ",
                       Take(strong_matches, 3))>>
           ELSE <<>>)
       \o <<Note("Research {company}'s recent news, values, and culture to personalize your letter",
                 <<job_listing.company>>)>>
       \o <<Note("Consider following up within 1-2 weeks if you don't hear back", <<>>)>>

create_job_description_from_listing(job_listing) ==
    [title |-> job_listing.title,
     company |-> job_listing.company,
     location |-> job_listing.location,
     description |-> job_listing.description,
     responsibilities |-> <<>>,
     requirements |-> <<>>]

\* _create_tailored_cover_letter: one LLM call, then GeneratedCoverLetter(...)
create_tailored_cover_letter(user_profile, job_listing, skill_matches, reply) ==
    IF reply.kind = "raise" THEN Raise(reply.cls, reply.msg)
    ELSE LET match_percentage == cover_letter_calculate_match_percentage(skill_matches)
             tailoring_notes == cover_letter_generate_tailoring_notes(skill_matches, job_listing)
         IN IF reply.kind # "text" \/ ~RatGeq(match_percentage, <<0, 1>>)
               \/ ~RatGeq(<<100, 1>>, match_percentage)
            THEN Raise("ValidationError", "validation error for GeneratedCoverLetter")
            ELSE Ok([user_profile |-> user_profile,
                     job_description |-> create_job_description_from_listing(job_listing),
                     skill_matches |-> skill_matches,
                     cover_letter_content |-> reply.content,
                     tailoring_notes |-> tailoring_notes,
                     match_percentage |-> match_percentage])

RECURSIVE generate_letters(_, _, _)
generate_letters(user_profile, job_skill_matches, replies) ==
    IF job_skill_matches = <<>> THEN [r |-> Ok(<<>>), n |-> 0]
    ELSE LET job_match == Head(job_skill_matches)
             letter == create_tailored_cover_letter(user_profile, job_match.job_listing,
                                                    job_match.skill_matches, Head(replies))
         IN IF ~letter.ok THEN [r |-> letter, n |-> 1]
            ELSE LET rest == generate_letters(user_profile, Tail(job_skill_matches), Tail(replies)) IN
                 IF ~rest.r.ok THEN [r |-> rest.r, n |-> rest.n + 1]
                 ELSE [r |-> Ok(<<letter.val>> \o rest.r.val), n |-> rest.n + 1]

\* "not job_skill_matches": None or the empty list
missing_job_skill_matches(x) == ~TruthyList(x)

\* a filter that keeps only the letters strictly above the threshold
generate_cover_letter_mutant(s, replies) ==
    LET match_threshold == IF s.match_threshold.set /\ s.match_threshold.val # <<0, 1>>
                           THEN s.match_threshold.val ELSE <<0, 1>>
    IN
    IF ~TruthyObj(s.user_profile) \/ missing_job_skill_matches(s.job_skill_matches)
    THEN Returned(AppendError(s, <<"Missing required data for cover letter generation">>), <<>>)
    ELSE LET g == generate_letters(s.user_profile.val, s.job_skill_matches.val, replies) IN
         IF g.r.ok
         THEN LET Passes(cl) == ~RatGeq(match_threshold, cl.match_percentage)
                  filtered_cover_letters == SelectSeq(g.r.val, Passes)
              IN Returned(AppendStep(set_generated_cover_letters(s, filtered_cover_letters),
                                     "cover_letter_generation"),
                          LlmCalls("generate_cover_letter", replies, g.n))
         ELSE IF Caught(g.r.cls)
         THEN Returned(AppendError(s, <<"Cover letter generation", " error: ", g.r.msg>>), LlmCalls("generate_cover_letter", replies, g.n))
         ELSE Propagated(s, LlmCalls("generate_cover_letter", replies, g.n))

generate_cover_letter(s, replies) ==
    LET match_threshold == IF s.match_threshold.set /\ s.match_threshold.val # <<0, 1>>
                           THEN s.match_threshold.val ELSE <<0, 1>>
    IN
    IF ~TruthyObj(s.user_profile) \/ missing_job_skill_matches(s.job_skill_matches)
    THEN Returned(AppendError(s, <<"Missing required data for cover letter generation">>), <<>>)
    ELSE LET g == generate_letters(s.user_profile.val, s.job_skill_matches.val, replies) IN
         IF g.r.ok
         THEN LET Passes(cl) == RatGeq(cl.match_percentage, match_threshold)
                  filtered_cover_letters == SelectSeq(g.r.val, Passes)
              IN Returned(AppendStep(set_generated_cover_letters(s, filtered_cover_letters),
                                     "cover_letter_generation"),
                          LlmCalls("generate_cover_letter", replies, g.n))
         ELSE IF Caught(g.r.cls)
         THEN Returned(AppendError(s, <<"Cover letter generation", " error: ", g.r.msg>>), LlmCalls("generate_cover_letter", replies, g.n))
         ELSE Propagated(s, LlmCalls("generate_cover_letter", replies, g.n))

(***************************************************************************)
(* The behaviours of the external capabilities (LLM, job search service).  *)
(***************************************************************************)
SeqsUpTo(S, n) == UNION {[1..k -> S] : k \in 0..n}

Json(v) == [t |-> "json", v |-> v]
Garbage == [t |-> "garbage"]
Whitespace == [t |-> "ws"]
FenceJson == [t |-> "fence_json"]
Fence == [t |-> "fence"]

LlmRaises == [kind |-> "raise", cls |-> "ConnectionError", msg |-> "connection refused"]
LlmText(content) == [kind |-> "text", content |-> content]

FullProfileJson ==
    JObj([full_name |-> JStr("Ada"),
          contact_info |-> JObj([email |-> JStr("ada@example.org"), location |-> JStr("Berlin")]),
          skills |-> JArr(<<JStr("Python"), JStr(" AWS")>>),
          experience |-> JArr(<<JObj([company |-> JStr("Acme"),
                                      position |-> JStr("  "),
                                      technologies_used |-> JArr(<<JStr("Python")>>)])>>)])

ProfileReplies ==
    {LlmRaises,
     LlmText(<<Garbage>>),
     LlmText(<<Json(JArr(<<>>))>>),
     LlmText(<<Json(JObj([skills |-> JStr("Python")]))>>),
     LlmText(<<Json(JObj([contact_info |-> JStr("ada@example.org")]))>>),
     LlmText(<<Json(JObj([experience |-> JNum(3)]))>>),
     LlmText(<<Json(EmptyObj)>>),
     LlmText(<<Json(FullProfileJson)>>)}

\* the rows of a result alternate between an on-site and a remote listing
Rows(i) ==
    IF i % 2 = 1
    THEN [title |-> "Backend Engineer", company |-> "Acme",
          location |-> <<"Berlin">>, description |-> <<"Build", "APIs">>]
    ELSE [title |-> "Data Engineer", company |-> "Globex",
          location |-> <<"Lisbon">>, description |-> <<"Work", "from", "home">>]

SearchResults ==
    {[kind |-> "raise", cls |-> "ConnectionError", msg |-> "rate limited"],
     [kind |-> "none"]}
    \cup {[kind |-> "df", rows |-> [i \in 1..k |-> Rows(i)]] : k \in 0..MaxJobs}

PythonMatch == JObj([skill |-> JStr("Python"), user_has_skill |-> JBool(TRUE), match_score |-> JNum(9)])
DockerMatch == JObj([skill |-> JStr("Docker"), user_has_skill |-> JBool(FALSE), match_score |-> JNum(0)])
AwsMatch == JObj([skill |-> JStr("AWS"), user_has_skill |-> JBool(TRUE), match_score |-> JNum(4)])
OutOfRangeMatch == JObj([skill |-> JStr("Go"), user_has_skill |-> JBool(TRUE), match_score |-> JNum(15)])
NonNumericMatch == JObj([skill |-> JStr("Rust"), user_has_skill |-> JBool(TRUE), match_score |-> JStr("high")])

SkillReplies ==
    {LlmRaises,
     LlmText(<<Garbage>>),
     LlmText(<<Json(JObj([matches |-> JArr(<<PythonMatch>>)]))>>),
     LlmText(<<Json(JArr(<<>>))>>),
     LlmText(<<Json(JArr(<<PythonMatch, DockerMatch>>))>>),
     LlmText(<<Whitespace, FenceJson, Json(JArr(<<AwsMatch>>)), Fence, Whitespace>>),
     LlmText(<<Fence, Json(JArr(<<PythonMatch>>)), Fence>>),
     LlmText(<<Json(JArr(<<OutOfRangeMatch, JStr("Python"), PythonMatch, NonNumericMatch>>))>>)}

CoverReplies ==
    {LlmRaises,
     LlmText("Dear team"),
     [kind |-> "blocks", content |-> "Dear team"]}

MatchThresholds == {NoneVal, Some(Rat(0, 1)), Some(Rat(50, 1))}

(***************************************************************************)
(* The workflow (workflows/graph.py): a fixed chain of four nodes.         *)
(***************************************************************************)
Nodes == <<"extract_profile", "search_jobs", "match_skills", "generate_cover_letter">>

\* add_edge(node, successor)
EdgeMutant(node) ==
    IF state.errors # <<>> THEN "END"
    ELSE CASE node = "extract_profile" -> "search_jobs"
           [] node = "search_jobs" -> "match_skills"
           [] node = "match_skills" -> "generate_cover_letter"
           [] node = "generate_cover_letter" -> "END"
Edge(node) ==
    CASE node = "extract_profile" -> "search_jobs"
      [] node = "search_jobs" -> "match_skills"
      [] node = "match_skills" -> "generate_cover_letter"
      [] node = "generate_cover_letter" -> "END"

InitialState(raw, json, location, threshold) ==
    [user_profile_raw |-> raw,
     user_profile_json |-> json,
     job_description |-> NoneVal,
     skill_matches |-> NoneVal,
     generated_resume |-> NoneVal,
     user_profile |-> NoneVal,
     job_matches |-> NoneVal,
     job_skill_matches |-> NoneVal,
     generated_cover_letters |-> NoneVal,
     errors |-> <<>>,
     step_completed |-> <<>>,
     job_search_location |-> location,
     match_threshold |-> threshold]

\* the profile file as the generate command passes it on: its content as raw
\* text, or as user_profile_json when the file name ends in .json
ProfileInputs ==
    {[raw |-> NoneVal, json |-> NoneVal],
     [raw |-> Some(""), json |-> NoneVal],
     [raw |-> Some("resume text"), json |-> NoneVal],
     [raw |-> NoneVal, json |-> Some("profile json")]}

Init ==
    /\ \E profile \in ProfileInputs,
          location \in {NoneVal, Some("Anywhere")},
          threshold \in MatchThresholds :
            state = InitialState(profile.raw, profile.json, location, threshold)
    /\ pc = "extract_profile"
    /\ invoked = <<>>
    /\ escaped = FALSE
    /\ prev = state
    /\ calls = <<>>
    /\ fin = NoneVal
    /\ fout = NoneVal

\* one node of the compiled graph ran: its returned state replaces the state
\* and control follows the node's edge; an exception leaving the node ends
\* the run
RunNode(node, r) ==
    /\ pc = node
    /\ state' = r.state
    /\ prev' = state
    /\ calls' = calls \o r.calls
    /\ invoked' = Append(invoked, node)
    /\ escaped' = r.escaped
    /\ pc' = IF r.escaped THEN "raised" ELSE Edge(node)
    /\ UNCHANGED <<fin, fout>>

ExtractProfile ==
    \E reply \in ProfileReplies :
        RunNode("extract_profile", extract_profile(state, reply))

SearchJobs ==
    \E result \in SearchResults :
        \E search_keywords \in (IF TruthyObj(state.user_profile)
                                THEN generate_search_keywords(state.user_profile.val)
                                ELSE {<<>>}) :
            RunNode("search_jobs", search_jobs(state, result, search_keywords))

\* one LLM reply for each element the stage loops over
RepliesFor(list, Replies) ==
    [1..(IF list.set THEN Len(list.val) ELSE 0) -> Replies]

MatchSkills ==
    \E replies \in RepliesFor(IF state.job_matches.set
                               THEN Some(state.job_matches.val.jobs) ELSE NoneVal,
                               SkillReplies) :
        RunNode("match_skills", match_skills(state, replies))

GenerateCoverLetter ==
    \E replies \in RepliesFor(state.job_skill_matches, CoverReplies) :
        RunNode("generate_cover_letter", generate_cover_letter(state, replies))

Next == ExtractProfile \/ SearchJobs \/ MatchSkills \/ GenerateCoverLetter

Spec == Init /\ [][Next]_vars

(***************************************************************************)
(* The deterministic helpers, applied to inputs drawn from bounded sets.   *)
(***************************************************************************)
SkillMatchValues ==
    {[skill |-> skill, user_has_skill |-> has, match_score |-> score] :
        skill \in {"Python", "Docker"}, has \in BOOLEAN, score \in {0, 2, 9}}

IdleState == InitialState(NoneVal, NoneVal, NoneVal, NoneVal)

InitPct ==
    /\ fin \in {Some(skill_matches) : skill_matches \in SeqsUpTo(SkillMatchValues, MaxMatches)}
    /\ fout = NoneVal
    /\ pc = "calculate_match_percentage"
    /\ state = IdleState
    /\ prev = IdleState
    /\ invoked = <<>>
    /\ escaped = FALSE
    /\ calls = <<>>

CalculateMatchPercentage ==
    /\ pc = "calculate_match_percentage"
    /\ fout' = Some([resume |-> resume_calculate_match_percentage(fin.val),
                     cover_letter |-> cover_letter_calculate_match_percentage(fin.val)])
    /\ pc' = "returned"
    /\ UNCHANGED <<state, prev, invoked, escaped, calls, fin>>

NextPct == CalculateMatchPercentage

SpecPct == InitPct /\ [][NextPct]_vars

(***************************************************************************)
(* Properties.                                                             *)
(***************************************************************************)
IsPrefix(a, b) == Len(a) <= Len(b) /\ SubSeq(b, 1, Len(a)) = a

Last(seq) == seq[Len(seq)]

InvokedInOrder ==
    /\ Len(invoked) <= Len(Nodes)
    /\ invoked = SubSeq(Nodes, 1, Len(invoked))
    /\ pc = IF Len(invoked) = Len(Nodes) THEN "END" ELSE Nodes[Len(invoked) + 1]

\* C1: in one run the four stages extract_profile, search_jobs, match_skills,
\* generate_cover_letter are each invoked exactly once, in that order, and the
\* run reaches END, whatever the errors list holds after any stage.
C1_StagesRunOnceInOrder ==
    /\ InvokedInOrder
    /\ pc \in Range(Nodes) \cup {"END"}
    /\ pc = "END" => invoked = Nodes

C1_Witness == pc = "END" /\ invoked = Nodes /\ Len(state.errors) >= 2

\* C2: whatever the external capability does (raises, replies with text that
\* is not JSON, replies with JSON of the wrong shape), every stage returns a
\* state: no exception leaves a stage.
C2_NoExceptionEscapes == ~escaped /\ pc # "raised"

C2_Witness ==
    /\ pc = "END"
    /\ ~escaped
    /\ calls # <<>>
    /\ Last(calls).node = "generate_cover_letter"
    /\ Last(calls).answer.kind = "raise"
    /\ state.errors = <<<<"Cover letter generation", " error: ", "connection refused">>>>

\* C3: errors and step_completed are append-only: across every stage
\* invocation the lists of the input state are prefixes of the lists of the
\* returned state.
C3_AppendOnly ==
    [][/\ IsPrefix(state.errors, state'.errors)
       /\ IsPrefix(state.step_completed, state'.step_completed)]_vars

C3_Witness ==
    /\ Len(state.errors) >= 2
    /\ Len(state.step_completed) >= 2
    /\ IsPrefix(prev.errors, state.errors)
    /\ prev.errors # state.errors

\* the fields a node requires, absent or empty
RequiredInputMissing(node, s) ==
    \/ node = "extract_profile" /\ (~s.user_profile_raw.set \/ s.user_profile_raw.val = "")
    \/ node = "search_jobs" /\ ~s.user_profile.set
    \/ node = "match_skills" /\ (~s.user_profile.set \/ ~s.job_matches.set)
    \/ node = "generate_cover_letter"
       /\ (~s.user_profile.set \/ ~s.job_skill_matches.set \/ s.job_skill_matches.val = <<>>)

\* C4: a stage invoked on a state in which a field it requires is absent or
\* empty appends exactly one error, leaves every other field (step_completed
\* included) unchanged and makes no external call.
C4_MissingInputAppendsOneError ==
    [][RequiredInputMissing(pc, state) =>
         /\ Len(state'.errors) = Len(state.errors) + 1
         /\ IsPrefix(state.errors, state'.errors)
         /\ [state' EXCEPT !.errors = state.errors] = state
         /\ calls' = calls]_vars

C4_Witness ==
    /\ invoked = <<"extract_profile">>
    /\ prev.user_profile_raw = Some("")
    /\ state = [prev EXCEPT !.errors = <<<<"No user profile data provided">>>>]
    /\ calls = <<>>

ArtifactFields == {"user_profile", "job_matches", "job_skill_matches", "generated_cover_letters"}

InputFields ==
    {"user_profile_raw", "user_profile_json", "job_search_location", "match_threshold",
     "job_description", "skill_matches", "generated_resume"}

OutputField(node) ==
    CASE node = "extract_profile" -> "user_profile"
      [] node = "search_jobs" -> "job_matches"
      [] node = "match_skills" -> "job_skill_matches"
      [] node = "generate_cover_letter" -> "generated_cover_letters"
      [] OTHER -> "none"

\* C5: within one run every artifact field (user_profile, job_matches,
\* job_skill_matches, generated_cover_letters) is written at most once: a
\* field that is set is never changed or cleared, and a stage changes no
\* field but errors, step_completed and its own output field.
C5_ArtifactsWrittenOnce ==
    [][/\ \A f \in ArtifactFields :
            /\ state[f].set => state'[f] = state[f]
            /\ state'[f] # state[f] => f = OutputField(pc)
       /\ \A f \in InputFields : state'[f] = state[f]]_vars

C5_Witness ==
    /\ pc = "END"
    /\ \A f \in ArtifactFields : state[f].set
    /\ state.generated_cover_letters.val # <<>>

\* C6: whenever a stage catches an unexpected internal failure (external call
\* raises, malformed reply, parsing failure) the error string it appends has
\* the form "<Stage> error: <message>", for every stage, job search included.
C6_CaughtFailureErrorForm ==
    [][(calls' # calls /\ state'.errors # state.errors) =>
         /\ Len(Last(state'.errors)) = 3
         /\ Last(state'.errors)[2] = " error: "]_vars

\* C7: in a full run whose profile-extraction LLM call returns text that is
\* not JSON, the extractor appends exactly one error beginning with
\* "Profile extraction error:", user_profile stays unset, and each of the three
\* downstream stages appends exactly one missing-input error: at END errors
\* has exactly four entries and step_completed is empty.
C7_NonJsonProfileReply ==
    (/\ pc = "END"
     /\ calls # <<>>
     /\ calls[1].node = "extract_profile"
     /\ calls[1].answer = LlmText(<<Garbage>>))
    => /\ Len(state.errors) = 4
       /\ Len(state.errors[1]) = 3
       /\ state.errors[1][1] = "Profile extraction"
       /\ state.errors[1][2] = " error: "
       /\ state.errors[2] = <<"User profile not found for job search">>
       /\ state.errors[3] = <<"Missing user profile or job matches for skills matching">>
       /\ state.errors[4] = <<"Missing required data for cover letter generation">>
       /\ ~state.user_profile.set
       /\ state.step_completed = <<>>
       /\ Len(calls) = 1

C7_Witness ==
    /\ pc = "END"
    /\ calls = <<Call("extract_profile", LlmText(<<Garbage>>))>>
    /\ Len(state.errors) = 4

\* the search service returned no listing
ZeroListings(answer) ==
    answer.kind = "none" \/ (answer.kind = "df" /\ answer.rows = <<>>)

\* C8: when the job search stage has a user profile and the search service
\* returns zero listings, the stage appends no error, stores job_matches with
\* an empty jobs list and total_results = 0 and appends "job_search" to
\* step_completed; in every state total_results is the number of listings in
\* job_matches.jobs.
C8_ZeroListingsIsNoError ==
    /\ state.job_matches.set =>
         state.job_matches.val.total_results = Len(state.job_matches.val.jobs)
    /\ (/\ invoked # <<>>
        /\ Last(invoked) = "search_jobs"
        /\ prev.user_profile.set
        /\ calls # <<>>
        /\ Last(calls).node = "search_jobs"
        /\ ZeroListings(Last(calls).answer))
       => /\ state.errors = prev.errors
          /\ state.job_matches.set
          /\ state.job_matches.val.jobs = <<>>
          /\ state.job_matches.val.total_results = 0
          /\ state.step_completed = Append(prev.step_completed, "job_search")

C8_Witness ==
    /\ invoked # <<>>
    /\ Last(invoked) = "search_jobs"
    /\ prev.user_profile.set
    /\ calls # <<>>
    /\ Last(calls) = Call("search_jobs", [kind |-> "df", rows |-> <<>>])
    /\ state.job_matches.set
    /\ state.job_matches.val.total_results = 0

\* C9: in a full run in which profile extraction succeeds and the search
\* service returns zero listings, no stage records an error: errors is empty
\* when the run reaches END.
C9_ZeroListingsRunHasNoError ==
    (/\ pc = "END"
     /\ state.user_profile.set
     /\ \E i \in 1..Len(calls) : calls[i].node = "search_jobs" /\ ZeroListings(calls[i].answer))
    => state.errors = <<>>

\* the sum of match_score over the matches with user_has_skill true
MatchedTotal(skill_matches) ==
    LET matched == {i \in 1..Len(skill_matches) : skill_matches[i].user_has_skill}
        RECURSIVE SumOver(_)
        SumOver(I) == IF I = {} THEN 0
                      ELSE LET i == CHOOSE k \in I : TRUE
                           IN skill_matches[i].match_score + SumOver(I \ {i})
    IN SumOver(matched)

\* C10: for every SkillMatch list the resume generator and the cover letter
\* generator compute the same match percentage: 0 for an empty list, otherwise
\* 100 times the sum of match_score over the matches with user_has_skill true
\* divided by the count of all matches; [0.9 matched, 0.0 unmatched] gives 45.
C10_MatchPercentage ==
    fout.set =>
      LET skill_matches == fin.val
          resume == fout.val.resume
          cover_letter == fout.val.cover_letter
      IN /\ resume = cover_letter
         /\ skill_matches = <<>> => resume = <<0, 1>>
         /\ skill_matches # <<>> =>
              resume[1] * MaxScore * Len(skill_matches)
                = resume[2] * 100 * MatchedTotal(skill_matches)
         /\ skill_matches = <<[skill |-> "Python", user_has_skill |-> TRUE, match_score |-> 9],
                              [skill |-> "Docker", user_has_skill |-> FALSE, match_score |-> 0]>>
              => resume = <<45, 1>>

C10_Witness ==
    /\ fout.set
    /\ Len(fin.val) = 2
    /\ fin.val[1].user_has_skill /\ fin.val[1].match_score = 9
    /\ ~fin.val[2].user_has_skill /\ fin.val[2].match_score = 2
    /\ fout.val.resume = <<45, 1>>
    /\ fout.val.cover_letter = <<45, 1>>

\* a match percentage within [0, 100]
PercentageInRange(p) == p[1] >= 0 /\ p[2] > 0 /\ p[1] <= 100 * p[2]

\* C11: in every reachable workflow state every SkillMatch held in
\* job_skill_matches has match_score within [0,1] (0..10 tenths) and every
\* generated artifact has match_percentage within [0,100], whatever numbers
\* the LLM reply contained.
C11_ScoresAndPercentagesInRange ==
    /\ state.job_skill_matches.set =>
         \A i \in 1..Len(state.job_skill_matches.val) :
            LET skill_matches == state.job_skill_matches.val[i].skill_matches IN
            \A k \in 1..Len(skill_matches) :
                skill_matches[k].match_score >= 0 /\ skill_matches[k].match_score <= 10
    /\ state.generated_cover_letters.set =>
         \A i \in 1..Len(state.generated_cover_letters.val) :
            PercentageInRange(state.generated_cover_letters.val[i].match_percentage)
    /\ state.generated_resume.set =>
         PercentageInRange(state.generated_resume.val.match_percentage)

C11_Witness ==
    /\ pc = "END"
    /\ \E i \in 1..Len(calls) :
          /\ calls[i].node = "match_skills"
          /\ calls[i].answer.kind = "text"
          /\ Len(calls[i].answer.content) = 1
          /\ calls[i].answer.content[1].t = "json"
          /\ calls[i].answer.content[1].v.j = "array"
          /\ Len(calls[i].answer.content[1].v.v) = 4
          /\ calls[i].answer.content[1].v.v[1].v.match_score.v = 15
    /\ state.job_skill_matches.set
    /\ state.generated_cover_letters.set
    /\ state.generated_cover_letters.val # <<>>

(***************************************************************************)
(* Resume generator (agents/resume_generator.py).  Here a skill, a         *)
(* technology or a requirement is a text: the sequence of its words, so    *)
(* that "a in b" is a contiguous match of the lowered words.               *)
(***************************************************************************)
\* sorted(items, key=...): a stable sort of <<[key |-> k, item |-> x], ...>>
RECURSIVE InsertByKey(_, _)
InsertByKey(p, sorted) ==
    IF sorted = <<>> THEN <<p>>
    ELSE IF Head(sorted).key <= p.key THEN <<Head(sorted)>> \o InsertByKey(p, Tail(sorted))
    ELSE <<p>> \o sorted

RECURSIVE SortFrom(_, _)
SortFrom(pairs, sorted) ==
    IF pairs = <<>> THEN sorted ELSE SortFrom(Tail(pairs), InsertByKey(Head(pairs), sorted))

\* a sort that puts an element after the equal ones that follow it
RECURSIVE StableSortMutant(_)
StableSortMutant(pairs) ==
    IF pairs = <<>> THEN <<>>
    ELSE LET rest == StableSortMutant(Tail(pairs))
             Smaller(p) == p.key <= Head(pairs).key
             NotSmaller(p) == ~Smaller(p)
         IN SelectSeq(rest, Smaller) \o <<Head(pairs)>> \o SelectSeq(rest, NotSmaller)

StableSort(pairs) == SortFrom(pairs, <<>>)

ItemsOf(pairs) == [i \in 1..Len(pairs) |-> pairs[i].item]

\* a.lower() in b.lower()
InLower(a, b) == Contains(LowerText(b), LowerText(a))

ResumeSection(section_name, content, priority) ==
    [section_name |-> section_name, content |-> content, priority |-> priority]

OptLine(label, opt) == IF TruthyStr(opt) THEN <<[label |-> label, value |-> opt.val]>> ELSE <<>>

create_contact_section(user_profile) ==
    ResumeSection("Contact Information",
                  <<[label |-> "", value |-> user_profile.full_name],
                    [label |-> "", value |-> user_profile.contact_info.email]>>
                  \o OptLine("", user_profile.contact_info.phone)
                  \o OptLine("LinkedIn: ", user_profile.contact_info.linkedin)
                  \o OptLine("GitHub: ", user_profile.contact_info.github)
                  \o OptLine("", user_profile.contact_info.location),
                  1)

SkillsLimit == 15

\* the second loop of _create_skills_section: a profile skill is added unless
\* it is contained in a skill already listed
RECURSIVE add_remaining_skills(_, _)
add_remaining_skills(user_skills, prioritized_skills) ==
    IF user_skills = <<>> THEN prioritized_skills
    ELSE LET skill == Head(user_skills) IN
         add_remaining_skills(
             Tail(user_skills),
             IF \E i \in 1..Len(prioritized_skills) : InLower(skill, prioritized_skills[i])
             THEN prioritized_skills
             ELSE Append(prioritized_skills, skill))

\* the skills of the section, before they are joined with ", "
prioritized_skills_of(user_profile, skill_matches) ==
    LET IsMatched(m) == m.user_has_skill /\ m.match_score > 5
        matched_skills == SkillsOf(SelectSeq(skill_matches, IsMatched))
        user_skills == user_profile.skills
        Known(skill) == \E i \in 1..Len(user_skills) :
                            InLower(skill, user_skills[i]) \/ InLower(user_skills[i], skill)
    IN add_remaining_skills(user_skills, SelectSeq(matched_skills, Known))

create_skills_section(user_profile, skill_matches) ==
    ResumeSection("Technical Skills",
                  Take(prioritized_skills_of(user_profile, skill_matches), SkillsLimit),
                  2)

\* strftime("%Y-%m") of an optional date, or the given word
FormatMonth(date, missing) ==
    IF date.set THEN [year |-> date.val.year, month |-> date.val.month]
    ELSE [word |-> missing]

experience_entry(exp, skill_matches) ==
    LET Relevant(tech) == \E i \in 1..Len(skill_matches) :
                              skill_matches[i].user_has_skill /\ InLower(skill_matches[i].skill, tech)
    IN [position |-> exp.position,
        company |-> exp.company,
        start_date |-> FormatMonth(exp.start_date, "Unknown"),
        end_date |-> FormatMonth(exp.end_date, "Present"),
        description |-> exp.description,
        key_achievements |-> exp.key_achievements,
        technologies |-> SelectSeq(exp.technologies_used, Relevant)]

create_experience_section(user_profile, job_description, skill_matches) ==
    ResumeSection("Professional Experience",
                  [i \in 1..Len(user_profile.experience) |->
                      experience_entry(user_profile.experience[i], skill_matches)],
                  3)

CourseworkLimit == 5
MinGpaShown == 35       \* 3.5, in tenths

education_entry(edu) ==
    [degree |-> edu.degree,
     field_of_study |-> IF TruthyStr(edu.field_of_study) THEN edu.field_of_study ELSE NoneVal,
     institution |-> edu.institution,
     year |-> IF edu.graduation_date.set THEN Some(edu.graduation_date.val.year) ELSE NoneVal,
     gpa |-> IF edu.gpa.set /\ edu.gpa.val # 0 /\ edu.gpa.val >= MinGpaShown THEN edu.gpa ELSE NoneVal,
     relevant_coursework |-> Take(edu.relevant_coursework, CourseworkLimit)]

create_education_section(user_profile) ==
    ResumeSection("Education",
                  [i \in 1..Len(user_profile.education) |-> education_entry(user_profile.education[i])],
                  4)

ProjectsLimit == 3

\* the projects sorted by ascending relevance
create_projects_section_mutant(user_profile, skill_matches) ==
    LET Has(m) == m.user_has_skill
        matched_skills == SkillsOf(SelectSeq(skill_matches, Has))
        Counts(tech) == \E i \in 1..Len(matched_skills) : InLower(matched_skills[i], tech)
        relevance_score(project) == Len(SelectSeq(project.technologies_used, Counts))
        relevant_projects ==
            StableSort([i \in 1..Len(user_profile.projects) |->
                           [key |-> relevance_score(user_profile.projects[i]),
                            item |-> user_profile.projects[i]]])
        top_projects == ItemsOf(Take(relevant_projects, ProjectsLimit))
    IN ResumeSection("Key Projects",
                     [i \in 1..Len(top_projects) |->
                         [name |-> top_projects[i].name,
                          url |-> IF TruthyStr(top_projects[i].url) THEN top_projects[i].url ELSE NoneVal,
                          description |-> top_projects[i].description,
                          technologies |-> top_projects[i].technologies_used,
                          achievements |-> top_projects[i].achievements]],
                     5)

create_projects_section(user_profile, skill_matches) ==
    LET Has(m) == m.user_has_skill
        matched_skills == SkillsOf(SelectSeq(skill_matches, Has))
        Counts(tech) == \E i \in 1..Len(matched_skills) : InLower(matched_skills[i], tech)
        relevance_score(project) == Len(SelectSeq(project.technologies_used, Counts))
        \* sort(key=score, reverse=True) keeps the order of equal scores
        relevant_projects ==
            StableSort([i \in 1..Len(user_profile.projects) |->
                           [key |-> 0 - relevance_score(user_profile.projects[i]),
                            item |-> user_profile.projects[i]]])
        top_projects == ItemsOf(Take(relevant_projects, ProjectsLimit))
    IN ResumeSection("Key Projects",
                     [i \in 1..Len(top_projects) |->
                         [name |-> top_projects[i].name,
                          url |-> IF TruthyStr(top_projects[i].url) THEN top_projects[i].url ELSE NoneVal,
                          description |-> top_projects[i].description,
                          technologies |-> top_projects[i].technologies_used,
                          achievements |-> top_projects[i].achievements]],
                     5)

create_certifications_section(user_profile) ==
    ResumeSection("Certifications",
                  [i \in 1..Len(user_profile.certifications) |->
                      [name |-> user_profile.certifications[i].name,
                       issuer |-> user_profile.certifications[i].issuer,
                       year |-> IF user_profile.certifications[i].issue_date.set
                                THEN Some(user_profile.certifications[i].issue_date.val.year)
                                ELSE NoneVal]],
                  6)

generate_resume_sections(user_profile, job_description, skill_matches) ==
    <<create_contact_section(user_profile),
      create_skills_section(user_profile, skill_matches),
      create_experience_section(user_profile, job_description, skill_matches),
      create_education_section(user_profile)>>
    \o (IF user_profile.projects # <<>>
        THEN <<create_projects_section(user_profile, skill_matches)>> ELSE <<>>)
    \o (IF user_profile.certifications # <<>>
        THEN <<create_certifications_section(user_profile)>> ELSE <<>>)

NotesSkillsLimit == 3
CriticalWeight == 8     \* importance_weight 0.8, in tenths

resume_generate_tailoring_notes(skill_matches, job_description) ==
    LET Critical(skill) == \E i \in 1..Len(job_description.requirements) :
                               /\ job_description.requirements[i].importance_weight >= CriticalWeight
                               /\ InLower(job_description.requirements[i].skill_or_requirement, skill)
        IsMissing(m) == ~m.user_has_skill /\ Critical(m.skill)
        IsStrong(m) == m.user_has_skill /\ m.match_score >= 8
        missing_skills == SkillsOf(SelectSeq(skill_matches, IsMissing))
        strong_matches == SkillsOf(SelectSeq(skill_matches, IsStrong))
    IN (IF missing_skills # <<>>
        THEN <<Note("Consider developing skills in: ", Take(missing_skills, NotesSkillsLimit))>>
        ELSE <<>>)
       \o (IF strong_matches # <<>>
           THEN <<Note("Emphasize these strong skill matches: ", Take(strong_matches, NotesSkillsLimit))>>
           ELSE <<>>)
       \o (IF job_description.responsibilities # <<>>
           THEN <<Note("Include keywords from job responsibilities in your descriptions", <<>>)>>
           ELSE <<>>)

\* response.content.strip(): a content that is a list of blocks has no strip
generate_custom_summary(user_profile, job_description, skill_matches, reply) ==
    IF reply.kind = "raise" THEN Raise(reply.cls, reply.msg)
    ELSE IF reply.kind # "text" THEN Raise("AttributeError", "'list' object has no attribute 'strip'")
    ELSE Ok(StripText(reply.content))

create_tailored_resume(user_profile, job_description, skill_matches, reply) ==
    LET customized_summary == generate_custom_summary(user_profile, job_description, skill_matches, reply)
        match_percentage == resume_calculate_match_percentage(skill_matches)
    IN IF ~customized_summary.ok THEN customized_summary
       ELSE IF ~RatGeq(match_percentage, <<0, 1>>) \/ ~RatGeq(<<100, 1>>, match_percentage)
       THEN Raise("ValidationError", "validation error for GeneratedResume")
       ELSE Ok([user_profile |-> user_profile,
                job_description |-> job_description,
                skill_matches |-> skill_matches,
                customized_summary |-> customized_summary.val,
                sections |-> generate_resume_sections(user_profile, job_description, skill_matches),
                tailoring_notes |-> resume_generate_tailoring_notes(skill_matches, job_description),
                match_percentage |-> match_percentage])

set_generated_resume(s, v) == [s EXCEPT !.generated_resume = Some(v)]

\* all([user_profile, job_description, skill_matches]): None and the empty
\* list are both falsy
all_resume_inputs(s) ==
    TruthyObj(s.user_profile) /\ TruthyObj(s.job_description) /\ TruthyList(s.skill_matches)

generate_resume(s, reply) ==
    IF ~all_resume_inputs(s)
    THEN Returned(AppendError(s, <<"Missing required data for resume generation">>), <<>>)
    ELSE LET r == create_tailored_resume(s.user_profile.val, s.job_description.val,
                                         s.skill_matches.val, reply)
             consumed == <<Call("generate_resume", reply)>>
         IN IF r.ok
            THEN Returned(AppendStep(set_generated_resume(s, r.val), "resume_generation"), consumed)
            ELSE IF Caught(r.cls)
            THEN Returned(AppendError(s, <<"Resume generation", " error: ", r.msg>>), consumed)
            ELSE Propagated(s, consumed)

(***************************************************************************)
(* The resume generator stage run on its own on a state that holds a       *)
(* profile, a job description and the skill matches for that job.          *)
(***************************************************************************)
MaxResumeMatches == 2

Prose == [t |-> "prose"]

SummaryReplies ==
    {LlmRaises,
     LlmText(<<Prose>>),
     LlmText(<<Whitespace, Prose, Whitespace>>),
     [kind |-> "blocks", content |-> <<Prose>>]}

Date(year, month, day) == [year |-> year, month |-> month, day |-> day]

PlainProfile ==
    [full_name |-> "Ada Lovelace",
     contact_info |-> [email |-> "ada@example.org", phone |-> NoneVal, linkedin |-> NoneVal,
                       github |-> Some("github.com/ada"), portfolio |-> NoneVal, location |-> Some("")],
     professional_summary |-> NoneVal,
     skills |-> << <<"Python">>, <<"Java">> >>,
     education |-> <<>>,
     experience |-> <<>>,
     projects |-> <<>>,
     certifications |-> <<>>,
     languages |-> <<>>]

RichProfile ==
    [PlainProfile EXCEPT
        !.education = <<[institution |-> "MIT", degree |-> "BSc", field_of_study |-> Some("Mathematics"),
                         graduation_date |-> Some(Date(2015, 6, 1)), gpa |-> Some(38),
                         relevant_coursework |-> <<"Algebra">>],
                        [institution |-> "ETH", degree |-> "MSc", field_of_study |-> NoneVal,
                         graduation_date |-> NoneVal, gpa |-> Some(30),
                         relevant_coursework |-> <<>>]>>,
        !.experience = <<[company |-> "Acme", position |-> "Engineer",
                          start_date |-> Some(Date(2016, 1, 1)), end_date |-> NoneVal,
                          description |-> "Built services", key_achievements |-> <<"Shipped">>,
                          technologies_used |-> << <<"Java", "Script">>, <<"Docker">> >>]>>,
        !.projects = <<[name |-> "P1", description |-> "d1", technologies_used |-> << <<"Docker">> >>,
                        url |-> NoneVal, achievements |-> <<>>],
                       [name |-> "P2", description |-> "d2", technologies_used |-> << <<"Python">> >>,
                        url |-> Some("p2.example.org"), achievements |-> <<"a2">>],
                       [name |-> "P3", description |-> "d3", technologies_used |-> << <<"Java">> >>,
                        url |-> NoneVal, achievements |-> <<>>],
                       [name |-> "P4", description |-> "d4", technologies_used |-> << <<"python">> >>,
                        url |-> NoneVal, achievements |-> <<>>]>>,
        !.certifications = <<[name |-> "CKA", issuer |-> "CNCF", issue_date |-> Some(Date(2020, 3, 1)),
                              expiry_date |-> NoneVal, credential_url |-> NoneVal]>>]

ResumeProfiles == {PlainProfile, RichProfile}

JobDescriptionValues ==
    {[title |-> "Developer", company |-> "Initech", location |-> NoneVal, job_type |-> NoneVal,
      salary_range |-> NoneVal, description |-> "Write code",
      responsibilities |-> responsibilities,
      requirements |-> <<[category |-> "required", skill_or_requirement |-> <<"Java">>,
                          importance_weight |-> weight]>>,
      preferred_qualifications |-> <<>>, company_culture |-> NoneVal, benefits |-> <<>>] :
        responsibilities \in {<<>>, <<"Ship features">>}, weight \in {5, 10}}

ResumeMatchValues ==
    {[skill |-> skill, user_has_skill |-> m.has, match_score |-> m.score] :
        skill \in {<<"Java">>, <<"Python">>},
        m \in {[has |-> TRUE, score |-> 9], [has |-> TRUE, score |-> 5], [has |-> FALSE, score |-> 2]}}

InitResume ==
    /\ \E user_profile \in {NoneVal} \cup {Some(p) : p \in ResumeProfiles},
          job_description \in {NoneVal} \cup {Some(j) : j \in JobDescriptionValues},
          skill_matches \in {NoneVal} \cup {Some(m) : m \in SeqsUpTo(ResumeMatchValues, MaxResumeMatches)} :
            state = [IdleState EXCEPT !.user_profile = user_profile,
                                      !.job_description = job_description,
                                      !.skill_matches = skill_matches]
    /\ pc = "generate_resume"
    /\ invoked = <<>>
    /\ escaped = FALSE
    /\ prev = state
    /\ calls = <<>>
    /\ fin = NoneVal
    /\ fout = NoneVal

GenerateResume ==
    \E reply \in SummaryReplies :
        LET r == generate_resume(state, reply) IN
        /\ pc = "generate_resume"
        /\ state' = r.state
        /\ prev' = state
        /\ calls' = calls \o r.calls
        /\ invoked' = Append(invoked, "generate_resume")
        /\ escaped' = r.escaped
        /\ pc' = IF r.escaped THEN "raised" ELSE "END"
        /\ UNCHANGED <<fin, fout>>

NextResume == GenerateResume

SpecResume == InitResume /\ [][NextResume]_vars

\* C12: a generator stage given a profile, a job and an empty SkillMatch list
\* produces its artifact with match_percentage 0.0 and appends no error; here
\* for the resume generator stage with skill_matches = []
C12_EmptyMatchesGiveZeroPercent ==
    (/\ invoked = <<"generate_resume">>
     /\ prev.user_profile.set /\ prev.job_description.set
     /\ prev.skill_matches = Some(<<>>)
     /\ (calls # <<>> => calls[1].answer.kind = "text"))
    => /\ state.generated_resume.set
       /\ state.generated_resume.val.match_percentage = Rat(0, 1)
       /\ state.errors = <<>>

(***************************************************************************)
(* The cover letter generator's tailoring notes as a pure function.        *)
(***************************************************************************)
MaxNoteMatches == 4

SkillNames == <<"Python", "Docker", "AWS", "Go", "Rust", "SQL">>

\* (user_has_skill, match_score) on both sides of the 0.3 and 0.8 limits
NoteMatchKinds ==
    {[has |-> FALSE, score |-> 2], [has |-> FALSE, score |-> 3], [has |-> TRUE, score |-> 2],
     [has |-> TRUE, score |-> 7], [has |-> TRUE, score |-> 8], [has |-> FALSE, score |-> 9]}

\* the i-th match of a list is about the i-th skill name
NoteMatchLists ==
    {[i \in 1..Len(kinds) |-> [skill |-> SkillNames[((i - 1) % Len(SkillNames)) + 1],
                               user_has_skill |-> kinds[i].has,
                               match_score |-> kinds[i].score]] :
        kinds \in SeqsUpTo(NoteMatchKinds, MaxNoteMatches)}

NoteListing(company) ==
    [title |-> "Developer", company |-> company, location |-> NoneVal, description |-> NoneVal,
     job_url |-> NoneVal, date_posted |-> NoneVal, job_type |-> NoneVal, salary |-> NoneVal,
     is_remote |-> FALSE]

InitNotes ==
    /\ fin \in {Some([skill_matches |-> skill_matches, job_listing |-> NoteListing(company)]) :
                   skill_matches \in NoteMatchLists, company \in {"Initech", "Acme"}}
    /\ fout = NoneVal
    /\ pc = "generate_tailoring_notes"
    /\ state = IdleState
    /\ prev = IdleState
    /\ invoked = <<>>
    /\ escaped = FALSE
    /\ calls = <<>>

GenerateTailoringNotes ==
    /\ pc = "generate_tailoring_notes"
    /\ fout' = Some(cover_letter_generate_tailoring_notes(fin.val.skill_matches, fin.val.job_listing))
    /\ pc' = "returned"
    /\ UNCHANGED <<state, prev, invoked, escaped, calls, fin>>

NextNotes == GenerateTailoringNotes

SpecNotes == InitNotes /\ [][NextNotes]_vars

\* the skills at the (at most three) smallest positions of Idx, in order
FirstThree(skill_matches, Idx) ==
    LET Rank(i) == Cardinality({j \in Idx : j < i}) + 1
        n == IF Cardinality(Idx) < 3 THEN Cardinality(Idx) ELSE 3
    IN [k \in 1..n |-> skill_matches[CHOOSE i \in Idx : Rank(i) = k].skill]

MissingNoteText == "Consider highlighting transferable skills or learning interest in: "
StrongNoteText == "Emphasize these strong skill matches in your cover letter: "

\* C13: the cover letter tailoring notes are, in this order, a missing-skills
\* note (iff some match has user_has_skill false and score < 0.3), a
\* strong-matches note (iff some match has user_has_skill true and score >=
\* 0.8), the research note and the follow-up note; each skill note names at
\* most the first three qualifying skills in input order; no LLM is called
C13_TailoringNotes ==
    fout.set =>
        LET skill_matches == fin.val.skill_matches
            notes == fout.val
            Miss == {i \in 1..Len(skill_matches) :
                        ~skill_matches[i].user_has_skill /\ skill_matches[i].match_score < 3}
            Strong == {i \in 1..Len(skill_matches) :
                        skill_matches[i].user_has_skill /\ skill_matches[i].match_score >= 8}
            m == IF Miss # {} THEN 1 ELSE 0
            s == IF Strong # {} THEN 1 ELSE 0
        IN /\ Len(notes) = m + s + 2
           /\ Miss # {} => notes[1] = Note(MissingNoteText, FirstThree(skill_matches, Miss))
           /\ Strong # {} => notes[m + 1] = Note(StrongNoteText, FirstThree(skill_matches, Strong))
           /\ notes[m + s + 1].skills = <<fin.val.job_listing.company>>
           /\ notes[m + s + 1].text
                = "Research {company}'s recent news, values, and culture to personalize your letter"
           /\ notes[m + s + 2] = Note("Consider following up within 1-2 weeks if you don't hear back", <<>>)
           /\ calls = <<>>

C13_Witness ==
    /\ fout.set
    /\ Len(fin.val.skill_matches) = 4
    /\ \A i \in {1, 2, 4} : ~fin.val.skill_matches[i].user_has_skill
                            /\ fin.val.skill_matches[i].match_score = 2
    /\ fin.val.skill_matches[3].user_has_skill /\ fin.val.skill_matches[3].match_score = 8
    /\ Len(fout.val) = 4
    /\ fout.val[1].skills = <<"Python", "Docker", "Go">>
    /\ fout.val[2].skills = <<"AWS">>

(***************************************************************************)
(* The renderers of the command line (cli.py).  A rendered document is the *)
(* sequence of its lines, before they are joined with newlines.            *)
(***************************************************************************)
MaxSections == 3

\* str.upper() on the section names of the model
Upper(str) ==
    CASE str = "Technical Skills" -> "TECHNICAL SKILLS"
      [] str = "Education" -> "EDUCATION"
      [] OTHER -> str

\* f"{p:.1f}": the nearest tenth, a tie going to the even one
FormatTenths(p) ==
    LET t == (10 * p[1]) \div p[2]
        r == (10 * p[1]) % p[2]
    IN IF 2 * r > p[2] \/ (2 * r = p[2] /\ t % 2 = 1) THEN t + 1 ELSE t

Line(kind, text) == [kind |-> kind, text |-> text]
Blank == Line("blank", "")
\* char * len(of)
Rule(char, of) == [kind |-> "rule", char |-> char, of |-> of]

\* sorted(resume.sections, key=lambda x: x.priority): a new list
sorted_sections(resume) ==
    ItemsOf(StableSort([i \in 1..Len(resume.sections) |->
                           [key |-> resume.sections[i].priority, item |-> resume.sections[i]]]))

\* what a renderer returns and the resume object after the call
Rendered(out, resume) == [out |-> out, resume |-> resume]

format_resume_as_text(resume) ==
    LET sections == sorted_sections(resume)
        Block(section) == <<Line("heading", Upper(section.section_name)),
                            Rule("-", section.section_name),
                            Line("content", section.content),
                            Blank>>
    IN Rendered(<<Line("name", resume.user_profile.full_name),
                  Rule("=", resume.user_profile.full_name),
                  Blank,
                  Line("heading1", "PROFESSIONAL SUMMARY"),
                  [kind |-> "rule", char |-> "-", n |-> 20],
                  Line("summary", resume.customized_summary),
                  Blank>>
                \o Flatten([i \in 1..Len(sections) |-> Block(sections[i])])
                \o <<[kind |-> "match", label |-> "JOB MATCH: ",
                      tenths |-> FormatTenths(resume.match_percentage)]>>,
                resume)

format_resume_as_markdown(resume) ==
    LET sections == sorted_sections(resume)
        Block(section) == <<[kind |-> "heading", prefix |-> "## ", text |-> section.section_name],
                            Line("content", section.content),
                            Blank>>
    IN Rendered(<<[kind |-> "name", prefix |-> "# ", text |-> resume.user_profile.full_name],
                  Blank,
                  Line("heading1", "## Professional Summary"),
                  Line("summary", resume.customized_summary),
                  Blank>>
                \o Flatten([i \in 1..Len(sections) |-> Block(sections[i])])
                \o <<[kind |-> "match", label |-> "**Job Match:** ",
                      tenths |-> FormatTenths(resume.match_percentage)]>>,
                resume)

render_resume(resume, fmt) ==
    IF fmt = "json" THEN Rendered(<<[kind |-> "json", dump |-> resume]>>, resume)
    ELSE IF fmt = "text" THEN format_resume_as_text(resume)
    ELSE format_resume_as_markdown(resume)

SectionContents == <<"c1", "c2", "c3", "c4", "c5", "c6">>

\* section lists in any priority order; the i-th section has the i-th content
SectionLists ==
    {[i \in 1..Len(heads) |-> ResumeSection(heads[i].section_name,
                                            SectionContents[((i - 1) % Len(SectionContents)) + 1],
                                            heads[i].priority)] :
        heads \in SeqsUpTo([section_name : {"Technical Skills", "Education"}, priority : 1..3],
                           MaxSections)}

ResumeWith(sections, match_percentage) ==
    [user_profile |-> PlainProfile,
     job_description |-> CHOOSE j \in JobDescriptionValues : TRUE,
     skill_matches |-> <<>>,
     customized_summary |-> <<Prose>>,
     sections |-> sections,
     tailoring_notes |-> <<>>,
     match_percentage |-> match_percentage]

InitRender ==
    /\ fin \in {Some(ResumeWith(sections, match_percentage)) :
                   sections \in SectionLists, match_percentage \in {Rat(0, 1), Rat(100, 3)}}
    /\ fout = NoneVal
    /\ pc = "render_resume"
    /\ state = IdleState
    /\ prev = IdleState
    /\ invoked = <<>>
    /\ escaped = FALSE
    /\ calls = <<>>

RenderResume ==
    \E fmt \in {"json", "text", "markdown"} :
        /\ pc = "render_resume"
        /\ fout' = Some([fmt |-> fmt, rendered |-> render_resume(fin.val, fmt)])
        /\ pc' = "returned"
        /\ UNCHANGED <<state, prev, invoked, escaped, calls, fin>>

NextRender == RenderResume

SpecRender == InitRender /\ [][NextRender]_vars

\* C14: the text and the markdown renderer emit every section of the resume
\* exactly once, in non-decreasing priority order, sections of equal priority
\* in insertion order, and leave the resume's sections list as it was
C14_RenderedSectionOrder ==
    (fout.set /\ fout.val.fmt \in {"text", "markdown"}) =>
        LET sections == fin.val.sections
            out == fout.val.rendered.out
            ContentAt == {k \in 1..Len(out) : out[k].kind = "content"}
            Pos(i) == {k \in ContentAt : out[k].text = sections[i].content}
            back == IF fout.val.fmt = "text" THEN 2 ELSE 1
            Heading(i) == IF fout.val.fmt = "text" THEN Upper(sections[i].section_name)
                          ELSE sections[i].section_name
        IN /\ Cardinality(ContentAt) = Len(sections)
           /\ Cardinality({k \in 1..Len(out) : out[k].kind = "heading"}) = Len(sections)
           /\ \A i \in 1..Len(sections) :
                /\ Cardinality(Pos(i)) = 1
                /\ \A k \in Pos(i) : /\ out[k - back].kind = "heading"
                                     /\ out[k - back].text = Heading(i)
           /\ \A i, j \in 1..Len(sections) :
                i < j => \A a \in Pos(i), b \in Pos(j) :
                            IF sections[i].priority <= sections[j].priority THEN a < b ELSE b < a
           /\ fout.val.rendered.resume = fin.val

C14_Witness ==
    /\ fout.set /\ fout.val.fmt = "text"
    /\ Len(fin.val.sections) = 3
    /\ [i \in 1..3 |-> fin.val.sections[i].priority] = <<3, 1, 2>>
    /\ LET out == fout.val.rendered.out
           IsContent(l) == l.kind = "content"
           contents == SelectSeq(out, IsContent)
       IN [k \in 1..Len(contents) |-> contents[k].text] = <<"c2", "c3", "c1">>

\* C15: when the initial state carries a pre-structured JSON profile
\* (user_profile_json set, user_profile_raw empty) the profile extractor
\* stores a user_profile without invoking the LLM and appends no error
C15_JsonProfileNeedsNoLlm ==
    (/\ invoked = <<"extract_profile">>
     /\ prev.user_profile_json.set
     /\ ~TruthyStr(prev.user_profile_raw))
    => /\ state.user_profile.set
       /\ state.errors = <<>>
       /\ calls = <<>>

(***************************************************************************)
(* The generate command (cli.py).  The compiled resume workflow is an      *)
(* external capability here: invoking it returns a terminal state or       *)
(* raises.  The command's outcome is what it echoed, what it wrote and     *)
(* whether it ended in click.Abort.                                        *)
(***************************************************************************)
MaxErrors == 2

Outcome(echoed, written, aborted) == [echoed |-> echoed, written |-> written, aborted |-> aborted]

\* click.Abort raised inside the try block is caught by "except Exception",
\* which echoes str(e), the empty string, and aborts again
AbortInsideTry(echoed) ==
    Outcome(echoed \o <<[kind |-> "unexpected", text |-> <<"">>]>>, NoneVal, TRUE)

\* the decision of generate after workflow.invoke returned (cli.py:111-135)
generate_mutant_no_error_check(args, result, echoed) ==
    LET generated_resume == result.state.generated_resume
    IN IF ~TruthyObj(generated_resume)
       THEN AbortInsideTry(echoed \o <<Line("failed", "Failed to generate resume")>>)
       ELSE Outcome(echoed \o <<Line("ok", "Resume generated successfully!")>>,
                    Some([path |-> args.output,
                          text |-> render_resume(generated_resume.val, args.output_format).out]),
                    FALSE)

generate_after_invoke(args, result, echoed) ==
    LET errors == IF TruthyList(result.state.errors) THEN result.state.errors.val ELSE <<>>
        generated_resume == result.state.generated_resume
    IN IF errors # <<>>
       THEN AbortInsideTry(echoed \o <<Line("errors", "Errors occurred during processing:")>>
                                  \o [i \in 1..Len(errors) |-> [kind |-> "error", text |-> errors[i]]])
       ELSE IF ~TruthyObj(generated_resume)
       THEN AbortInsideTry(echoed \o <<Line("failed", "Failed to generate resume")>>)
       ELSE LET notes == generated_resume.val.tailoring_notes IN
            Outcome(echoed
                    \o <<Line("ok", "Resume generated successfully!"),
                         [kind |-> "saved", path |-> args.output],
                         [kind |-> "match", label |-> "Match percentage: ",
                          tenths |-> FormatTenths(generated_resume.val.match_percentage)]>>
                    \o (IF notes # <<>>
                        THEN <<Line("suggestions", "Tailoring suggestions:")>>
                             \o [i \in 1..Len(notes) |-> [kind |-> "note", note |-> notes[i]]]
                        ELSE <<>>),
                    Some([path |-> args.output,
                          text |-> render_resume(generated_resume.val, args.output_format).out]),
                    FALSE)

generate(args, result) ==
    IF ~args.profile.exists
    THEN Outcome(<<[kind |-> "not_found", text |-> args.profile.path]>>, NoneVal, TRUE)
    ELSE LET is_json_profile == args.profile.suffix = ".json"
             echoed == <<Line("detected", IF is_json_profile THEN "Detected JSON profile format"
                                          ELSE "Detected text profile format"),
                         Line("start", "Starting resume generation workflow..."),
                         [kind |-> "searching", location |-> args.location],
                         [kind |-> "limits", max_results |-> args.max_results]>>
         IN IF result.kind = "raise"
            THEN Outcome(echoed \o <<[kind |-> "unexpected", text |-> <<result.msg>>]>>, NoneVal, TRUE)
            ELSE generate_after_invoke(args, result, echoed)

ErrorValues ==
    {<<"No user profile data provided">>,
     <<"Resume generation", " error: ", "connection refused">>}

TerminalResults ==
    {[kind |-> "raise", cls |-> "RuntimeError", msg |-> "recursion limit"]}
    \cup {[kind |-> "state", state |-> [errors |-> errors, generated_resume |-> generated_resume]] :
            errors \in {NoneVal} \cup {Some(e) : e \in SeqsUpTo(ErrorValues, MaxErrors)},
            generated_resume \in
                {NoneVal,
                 Some(ResumeWith(<<>>, Rat(0, 1))),
                 Some([ResumeWith(<<ResumeSection("Education", "c1", 4),
                                    ResumeSection("Technical Skills", "c2", 2)>>, Rat(100, 3))
                          EXCEPT !.tailoring_notes = <<Note("Emphasize these strong skill matches: ",
                                                            << <<"Python">> >>)>>])}}

CommandArgs ==
    {[profile |-> profile, location |-> "Berlin", max_results |-> DefaultMaxResults,
      output |-> "resume.md", output_format |-> fmt] :
        profile \in {[exists |-> FALSE, path |-> "profile.txt", suffix |-> ".txt"],
                     [exists |-> TRUE, path |-> "profile.txt", suffix |-> ".txt"],
                     [exists |-> TRUE, path |-> "profile.json", suffix |-> ".json"]},
        fmt \in {"json", "text", "markdown"}}

InitCli ==
    /\ fin \in {Some([args |-> args, result |-> result]) : args \in CommandArgs, result \in TerminalResults}
    /\ fout = NoneVal
    /\ pc = "generate"
    /\ state = IdleState
    /\ prev = IdleState
    /\ invoked = <<>>
    /\ escaped = FALSE
    /\ calls = <<>>

Generate ==
    /\ pc = "generate"
    /\ fout' = Some(generate(fin.val.args, fin.val.result))
    /\ pc' = "returned"
    /\ UNCHANGED <<state, prev, invoked, escaped, calls, fin>>

NextCli == Generate

SpecCli == InitCli /\ [][NextCli]_vars

\* C16: the generate command writes the output file iff the terminal state
\* has an empty errors list and holds the generated artifact; with errors it
\* reports every accumulated error, in order, and aborts without writing;
\* with no errors and no artifact it aborts without writing
C16_WritesIffCleanAndPresent ==
    (fout.set /\ fin.val.args.profile.exists /\ fin.val.result.kind = "state") =>
        LET terminal == fin.val.result.state
            errors == IF terminal.errors.set THEN terminal.errors.val ELSE <<>>
            IsError(l) == l.kind = "error"
            reported == SelectSeq(fout.val.echoed, IsError)
        IN /\ fout.val.written.set <=> (errors = <<>> /\ terminal.generated_resume.set)
           /\ fout.val.written.set <=> ~fout.val.aborted
           /\ errors # <<>> => [i \in 1..Len(reported) |-> reported[i].text] = errors
           /\ fout.val.written.set =>
                fout.val.written.val.text
                    = render_resume(terminal.generated_resume.val, fin.val.args.output_format).out

C16_Witness ==
    /\ fout.set /\ fin.val.args.profile.exists /\ fin.val.result.kind = "state"
    /\ fin.val.result.state.errors.set
    /\ Len(fin.val.result.state.errors.val) = 2
    /\ fin.val.result.state.errors.val[1] # fin.val.result.state.errors.val[2]
    /\ fin.val.result.state.generated_resume.set
    /\ fout.val.aborted /\ ~fout.val.written.set

(***************************************************************************)
(* The skills block of a resume as a pure function of the profile's skill  *)
(* list and the SkillMatch list.                                           *)
(***************************************************************************)
MaxSkills == 2

SkillTexts == {<<"Java">>, <<"java">>, <<"Java", "Script">>, <<"Python">>}

InitSkills ==
    /\ fin \in {Some([user_profile |-> [PlainProfile EXCEPT !.skills = skills],
                      skill_matches |-> skill_matches]) :
                   skills \in SeqsUpTo(SkillTexts, MaxSkills),
                   skill_matches \in SeqsUpTo(ResumeMatchValues, MaxResumeMatches)}
    /\ fout = NoneVal
    /\ pc = "create_skills_section"
    /\ state = IdleState
    /\ prev = IdleState
    /\ invoked = <<>>
    /\ escaped = FALSE
    /\ calls = <<>>

CreateSkillsSection ==
    /\ pc = "create_skills_section"
    /\ fout' = Some(create_skills_section(fin.val.user_profile, fin.val.skill_matches))
    /\ pc' = "returned"
    /\ UNCHANGED <<state, prev, invoked, escaped, calls, fin>>

NextSkills == CreateSkillsSection

SpecSkills == InitSkills /\ [][NextSkills]_vars

EqualIgnoringCase(a, b) == LowerText(a) = LowerText(b)

\* C17: the skills block of a generated resume contains no two entries that
\* are equal ignoring letter case, for every profile skill list and every
\* SkillMatch list
C17_SkillsBlockHasNoCaseDuplicates ==
    fout.set =>
        \A i, j \in 1..Len(fout.val.content) :
            i # j => ~EqualIgnoringCase(fout.val.content[i], fout.val.content[j])

\* appends each skill that equals no listed entry ignoring case
RECURSIVE AppendUnlisted(_, _)
AppendUnlisted(skills, listed) ==
    IF skills = <<>> THEN listed
    ELSE AppendUnlisted(Tail(skills),
                        IF \E i \in 1..Len(listed) : EqualIgnoringCase(Head(skills), listed[i])
                        THEN listed ELSE Append(listed, Head(skills)))

\* C18: the skills block is the first 15 entries of the matched skills
\* (user_has_skill true, score > 0.5) that correspond to a profile skill,
\* followed by every profile skill not already listed (compared ignoring
\* case) in profile order; no profile skill is dropped except as a
\* case-insensitive duplicate or by the cap
C18_SkillsBlockContent ==
    fout.set =>
        LET user_skills == fin.val.user_profile.skills
            Corresponds(m) ==
                /\ m.user_has_skill /\ m.match_score > 5
                /\ \E i \in 1..Len(user_skills) :
                      \/ InLower(m.skill, user_skills[i])
                      \/ InLower(user_skills[i], m.skill)
            listed == AppendUnlisted(user_skills, SkillsOf(SelectSeq(fin.val.skill_matches, Corresponds)))
        IN /\ fout.val.content = Take(listed, 15)
           /\ \A i \in 1..Len(user_skills) :
                \/ Len(fout.val.content) = 15
                \/ \E k \in 1..Len(fout.val.content) :
                      EqualIgnoringCase(user_skills[i], fout.val.content[k])

StepName(node) ==
    CASE node = "extract_profile" -> "profile_extraction"
      [] node = "search_jobs" -> "job_search"
      [] node = "match_skills" -> "skills_matching"
      [] node = "generate_cover_letter" -> "cover_letter_generation"
      [] OTHER -> "none"

\* C19: each stage invocation appends exactly one entry to the two log lists:
\* its own step name to step_completed and no error, or one string to errors
\* and no step name; so after the four-stage run len(errors) +
\* len(step_completed) = 4 and step_completed holds no duplicate
C19_OneLogEntryPerInvocation ==
    /\ invoked # <<>> =>
          \/ /\ state.step_completed = Append(prev.step_completed, StepName(Last(invoked)))
             /\ state.errors = prev.errors
          \/ /\ Len(state.errors) = Len(prev.errors) + 1
             /\ IsPrefix(prev.errors, state.errors)
             /\ state.step_completed = prev.step_completed
    /\ Len(state.errors) + Len(state.step_completed) = Len(invoked)
    /\ pc = "END" => Len(state.errors) + Len(state.step_completed) = 4
    /\ \A i, j \in 1..Len(state.step_completed) :
          i # j => state.step_completed[i] # state.step_completed[j]

C19_Witness ==
    /\ pc = "END"
    /\ state.step_completed = <<"profile_extraction", "job_search", "skills_matching">>
    /\ Len(state.errors) = 1

\* C20: a stage's output field is set iff the stage's name is in
\* step_completed; a stage whose LLM call raises part-way stores no output,
\* not the results computed for the earlier listings
C20_OutputIffStepCompleted ==
    /\ \A n \in 1..Len(Nodes) :
          state[OutputField(Nodes[n])].set <=> StepName(Nodes[n]) \in Range(state.step_completed)
    /\ \A i \in 1..Len(calls) :
          (calls[i].node \in {"match_skills", "generate_cover_letter"} /\ calls[i].answer.kind = "raise")
              => ~state[OutputField(calls[i].node)].set

C20_Witness ==
    /\ invoked = <<"extract_profile", "search_jobs", "match_skills">>
    /\ \E i \in 1..Len(calls) :
          /\ i + 1 \in 1..Len(calls)
          /\ calls[i].node = "match_skills" /\ calls[i].answer.kind = "text"
          /\ calls[i].answer.content[1].t = "json"
          /\ calls[i + 1].node = "match_skills" /\ calls[i + 1].answer.kind = "raise"
    /\ ~state.job_skill_matches.set
    /\ "skills_matching" \notin Range(state.step_completed)
    /\ Len(state.errors) = 1

MissingInputError(node) ==
    CASE node = "search_jobs" -> <<"User profile not found for job search">>
      [] node = "match_skills" -> <<"Missing user profile or job matches for skills matching">>
      [] node = "generate_cover_letter" -> <<"Missing required data for cover letter generation">>
      [] OTHER -> <<"none">>

\* C21: step_completed is at every point a prefix of [profile_extraction,
\* job_search, skills_matching, cover_letter_generation]; once a stage has
\* recorded an error, no later stage completes and every later stage records
\* its missing-input error
C21_ErrorStopsLaterStages ==
    /\ IsPrefix(state.step_completed,
                <<"profile_extraction", "job_search", "skills_matching", "cover_letter_generation">>)
    /\ (invoked # <<>> /\ prev.errors # <<>>) =>
          /\ state.step_completed = prev.step_completed
          /\ state.errors = Append(prev.errors, MissingInputError(Last(invoked)))

C21_Witness ==
    /\ pc = "END"
    /\ state.step_completed = <<"profile_extraction">>
    /\ Len(state.errors) = 3
    /\ state.errors[1] = <<"Job search", " failed: ", "rate limited">>
    /\ state.errors[3] = <<"Missing required data for cover letter generation">>

(***************************************************************************)
(* The skills matcher's reply parsing as a pure function of the reply.     *)
(***************************************************************************)
MaxElements == 3

BoolScoreMatch == JObj([skill |-> JStr("SQL"), user_has_skill |-> JBool(TRUE), match_score |-> JBool(TRUE)])
NegativeScoreMatch == JObj([skill |-> JStr("Perl"), user_has_skill |-> JBool(FALSE), match_score |-> JNum(0 - 1)])

\* the elements a decoded array is built from, by number
ArrayElements ==
    <<PythonMatch, DockerMatch, OutOfRangeMatch, NonNumericMatch, NegativeScoreMatch, BoolScoreMatch,
      JStr("Python"), EmptyObj>>

Wrappings == {"none", "json_fence", "plain_fence"}

\* the reply text: the document alone, or on its own line between a leading
\* fence line (with or without the json tag) and a trailing fence
Wrap(doc, wrapping) ==
    IF wrapping = "json_fence" THEN <<FenceJson, Whitespace, Json(doc), Whitespace, Fence>>
    ELSE IF wrapping = "plain_fence" THEN <<Fence, Whitespace, Json(doc), Whitespace, Fence>>
    ELSE <<Json(doc)>>

InitParse ==
    /\ \E numbers \in SeqsUpTo(1..Len(ArrayElements), MaxElements), wrapping \in Wrappings :
          fin = Some([doc |-> JArr([i \in 1..Len(numbers) |-> ArrayElements[numbers[i]]]),
                      wrapping |-> wrapping])
    /\ fout = NoneVal
    /\ pc = "analyze_skill_matches_for_job"
    /\ state = IdleState
    /\ prev = IdleState
    /\ invoked = <<>>
    /\ escaped = FALSE
    /\ calls = <<>>

AnalyzeSkillMatches ==
    /\ pc = "analyze_skill_matches_for_job"
    /\ fout' = Some(analyze_skill_matches_for_job(LlmText(Wrap(fin.val.doc, fin.val.wrapping))))
    /\ pc' = "returned"
    /\ UNCHANGED <<state, prev, invoked, escaped, calls, fin>>

NextParse == AnalyzeSkillMatches

SpecParse == InitParse /\ [][NextParse]_vars

\* C22: a reply that is a valid JSON array wrapped in code-fence markers (a
\* leading fence line with or without the json tag, and a trailing fence) is
\* parsed to the same SkillMatch list as the unwrapped array
C22_FencedReplyParsesAsUnwrapped ==
    (fout.set /\ fin.val.wrapping # "none") =>
        fout.val = analyze_skill_matches_for_job(LlmText(<<Json(fin.val.doc)>>))

FieldOr(element, key, default) == IF key \in DOMAIN element.v THEN element.v[key] ELSE default

ScoreTenths(element) ==
    LET score == FieldOr(element, "match_score", JNum(0))
    IN IF score.j = "bool" THEN (IF score.v THEN 10 ELSE 0) ELSE score.v

\* the element constructs a SkillMatch: an object whose score is a number in
\* [0, 1] and whose other fields have their types
ConstructsSkillMatch(element) ==
    /\ element.j = "object"
    /\ FieldOr(element, "skill", JStr("")).j = "string"
    /\ FieldOr(element, "user_has_skill", JBool(FALSE)).j = "bool"
    /\ FieldOr(element, "match_score", JNum(0)).j \in {"number", "bool"}
    /\ ScoreTenths(element) >= 0 /\ ScoreTenths(element) <= 10

\* C23: when the reply decodes to a JSON array, the skills matcher's result
\* for the job is exactly the sub-sequence of the elements that construct a
\* valid SkillMatch, in their original order; an invalid element is skipped
\* and never aborts the batch
C23_InvalidElementsSkipped ==
    (fout.set /\ fin.val.wrapping \in {"none", "json_fence"}) =>
        LET valid == SelectSeq(fin.val.doc.v, ConstructsSkillMatch)
        IN /\ fout.val.ok
           /\ Len(fout.val.val) = Len(valid)
           /\ \A k \in 1..Len(valid) :
                /\ fout.val.val[k].skill = FieldOr(valid[k], "skill", JStr("")).v
                /\ fout.val.val[k].user_has_skill = FieldOr(valid[k], "user_has_skill", JBool(FALSE)).v
                /\ fout.val.val[k].match_score = ScoreTenths(valid[k])

C23_Witness ==
    /\ fout.set /\ fin.val.wrapping = "none"
    /\ Len(fin.val.doc.v) = 3
    /\ fin.val.doc.v[1].j = "string"
    /\ fin.val.doc.v[2].j = "object" /\ "match_score" \in DOMAIN fin.val.doc.v[2].v
    /\ fin.val.doc.v[2].v.match_score.j = "number" /\ fin.val.doc.v[2].v.match_score.v = 15
    /\ fin.val.doc.v[3].j = "object" /\ "skill" \in DOMAIN fin.val.doc.v[3].v
    /\ fin.val.doc.v[3].v.skill.v = "Python"
    /\ fout.val.ok /\ Len(fout.val.val) = 1 /\ fout.val.val[1].skill = "Python"

\* the reply holds no JSON array at all
HoldsNoArray(reply) ==
    \A k \in 1..Len(reply.content) :
        reply.content[k].t = "json" => reply.content[k].v.j # "array"

\* C24: when the reply for a job does not decode as JSON or decodes to
\* something other than an array, the skills matcher records an empty match
\* list for that job, appends nothing to errors, goes on with the remaining
\* listings, and the stage appends "skills_matching" with one
\* job_skill_matches entry per listing, in listing order
C24_UndecodableReplyGivesEmptyList ==
    LET IsMatchCall(c) == c.node = "match_skills"
        replies == SelectSeq(calls, IsMatchCall)
    IN (/\ invoked # <<>> /\ Last(invoked) = "match_skills"
        /\ prev.user_profile.set /\ prev.job_matches.set
        /\ \A i \in 1..Len(replies) : replies[i].answer.kind = "text")
       => LET jobs == prev.job_matches.val.jobs IN
          /\ Len(replies) = Len(jobs)
          /\ state.errors = prev.errors
          /\ state.step_completed = Append(prev.step_completed, "skills_matching")
          /\ state.job_skill_matches.set
          /\ Len(state.job_skill_matches.val) = Len(jobs)
          /\ \A i \in 1..Len(jobs) :
                /\ state.job_skill_matches.val[i].job_listing = jobs[i]
                /\ HoldsNoArray(replies[i].answer)
                      => state.job_skill_matches.val[i].skill_matches = <<>>

C24_Witness ==
    /\ invoked # <<>> /\ Last(invoked) = "match_skills"
    /\ state.job_skill_matches.set
    /\ Len(state.job_skill_matches.val) = 2
    /\ state.job_skill_matches.val[1].skill_matches = <<>>
    /\ Len(state.job_skill_matches.val[2].skill_matches) = 2
    /\ calls[Len(calls) - 1].node = "match_skills"
    /\ calls[Len(calls) - 1].answer.kind = "text"
    /\ calls[Len(calls) - 1].answer.content = <<Garbage>>
    /\ state.errors = <<>>

(***************************************************************************)
(* Date parsing of the profile extractor (_parse_date).  The text of a     *)
(* string is its "-"-separated numeric fields (written without leading     *)
(* zeros except for padding of month and day), or junk when it holds any   *)
(* other character.                                                        *)
(***************************************************************************)
DateText(parts) == [parts |-> parts, junk |-> FALSE]
JunkText == [parts |-> <<>>, junk |-> TRUE]

IsLeap(year) == year % 4 = 0 /\ (year % 100 # 0 \/ year % 400 = 0)

DaysInMonth(year, month) ==
    IF month = 2 THEN (IF IsLeap(year) THEN 29 ELSE 28)
    ELSE IF month \in {4, 6, 9, 11} THEN 30 ELSE 31

\* datetime.strptime(text, "%Y-%m-%d").date(): %Y takes exactly four digits
strptime(text) ==
    IF /\ ~text.junk
       /\ Len(text.parts) = 3
       /\ text.parts[1] >= 1000 /\ text.parts[1] <= 9999
       /\ text.parts[2] >= 1 /\ text.parts[2] <= 12
       /\ text.parts[3] >= 1 /\ text.parts[3] <= DaysInMonth(text.parts[1], text.parts[2])
    THEN Ok(Date(text.parts[1], text.parts[2], text.parts[3]))
    ELSE Raise("ValueError", "time data does not match format '%Y-%m-%d'")

\* "not date_str": None, "", 0, False, [] and {} are falsy
FalsyJson(v) ==
    \/ v.j = "null"
    \/ (v.j = "string" /\ ~v.v.junk /\ v.v.parts = <<>>)
    \/ (v.j = "number" /\ v.v = 0)
    \/ (v.j = "bool" /\ ~v.v)
    \/ (v.j = "array" /\ v.v = <<>>)

\* f"{date_str}-01-01": a string as it is, a whole number as its digits
FormatWithJanuaryFirst(v) ==
    IF v.j = "string" THEN (IF v.v.junk THEN JunkText ELSE DateText(v.v.parts \o <<1, 1>>))
    ELSE IF v.j = "number" /\ v.v > 0 THEN DateText(<<v.v, 1, 1>>)
    ELSE JunkText

parse_date(date_str) ==
    IF FalsyJson(date_str) THEN NoneVal
    ELSE LET first == IF date_str.j = "string" THEN strptime(date_str.v)
                      ELSE Raise("TypeError", "strptime() argument 1 must be str")
         IN IF first.ok THEN Some(first.val)
            ELSE LET second == strptime(FormatWithJanuaryFirst(date_str))
                 IN IF second.ok THEN Some(second.val) ELSE NoneVal

DateYears == {999, 2020, 2021}
DateMonths == {0, 2, 4, 12, 13}
DateDays == {0, 1, 29, 30, 31, 32}

InitDate ==
    /\ \/ fin \in {Some(JStr(DateText(<<y, m, d>>))) : y \in DateYears, m \in DateMonths, d \in DateDays}
       \/ fin \in {Some(JStr(DateText(<<y, m>>))) : y \in DateYears, m \in DateMonths}
       \/ fin \in {Some(JStr(DateText(<<y>>))) : y \in DateYears}
       \/ fin \in {Some(JStr(DateText(<<>>))), Some(JStr(DateText(<<2020, 2, 1, 1>>))), Some(JStr(JunkText))}
       \/ fin \in {Some(JNum(n)) : n \in {0} \cup DateYears}
       \/ fin \in {Some(JBool(b)) : b \in BOOLEAN}
       \/ fin = Some(JNull)
       \/ fin = Some(JArr(<<>>))
    /\ fout = NoneVal
    /\ pc = "parse_date"
    /\ state = IdleState
    /\ prev = IdleState
    /\ invoked = <<>>
    /\ escaped = FALSE
    /\ calls = <<>>

ParseDate ==
    /\ pc = "parse_date"
    /\ fout' = Some(parse_date(fin.val))
    /\ pc' = "returned"
    /\ UNCHANGED <<state, prev, invoked, escaped, calls, fin>>

NextDate == ParseDate

SpecDate == InitDate /\ [][NextDate]_vars

\* C25: date parsing never raises: a full YYYY-MM-DD string yields that
\* calendar date, a bare YYYY string yields January 1 of that year, an absent
\* or empty value yields null, and every other value (wrong format,
\* impossible date, non-string) yields null
C25_ParseDate ==
    fout.set =>
        LET v == fin.val
            IsText == v.j = "string" /\ ~v.v.junk
            IsYear(y) == y >= 1000 /\ y <= 9999
        IN IF /\ IsText /\ Len(v.v.parts) = 3 /\ IsYear(v.v.parts[1])
              /\ v.v.parts[2] \in 1..12
              /\ v.v.parts[3] \in 1..DaysInMonth(v.v.parts[1], v.v.parts[2])
           THEN fout.val = Some(Date(v.v.parts[1], v.v.parts[2], v.v.parts[3]))
           ELSE IF IsText /\ Len(v.v.parts) = 1 /\ IsYear(v.v.parts[1])
           THEN fout.val = Some(Date(v.v.parts[1], 1, 1))
           ELSE fout.val = NoneVal

(***************************************************************************)
(* The search keywords and the search term as a function of the profile    *)
(* and of the order in which list(set(...)) yields the keywords.           *)
(***************************************************************************)
MaxKeywordSkills == 6

SkillPool == <<"Python", " AWS", "  ", "AWS", "Docker", "Go">>

ExperiencePool ==
    <<[company |-> "Acme", position |-> "Backend Engineer", start_date |-> NoneVal, end_date |-> NoneVal,
       description |-> "", key_achievements |-> <<>>,
       technologies_used |-> <<"Python", "SQL", "Docker", "Java">>],
      [company |-> "Globex", position |-> "  ", start_date |-> NoneVal, end_date |-> NoneVal,
       description |-> "", key_achievements |-> <<>>, technologies_used |-> <<>>],
      [company |-> "Initech", position |-> "CTO", start_date |-> NoneVal, end_date |-> NoneVal,
       description |-> "", key_achievements |-> <<>>, technologies_used |-> <<"Cobol">>]>>

KeywordProfiles ==
    {[PlainProfile EXCEPT !.skills = Take(SkillPool, k), !.experience = Take(ExperiencePool, e)] :
        k \in 0..MaxKeywordSkills, e \in 0..Len(ExperiencePool)}

\* " ".join(search_keywords[:3])
search_term(search_keywords) == [sep |-> " ", items |-> Take(search_keywords, 3)]

InitKeywords ==
    /\ fin \in {Some(p) : p \in KeywordProfiles}
    /\ fout = NoneVal
    /\ pc = "generate_search_keywords"
    /\ state = IdleState
    /\ prev = IdleState
    /\ invoked = <<>>
    /\ escaped = FALSE
    /\ calls = <<>>

GenerateSearchKeywords ==
    \E search_keywords \in generate_search_keywords(fin.val) :
        /\ pc = "generate_search_keywords"
        /\ fout' = Some([search_keywords |-> search_keywords,
                         search_term |-> search_term(search_keywords)])
        /\ pc' = "returned"
        /\ UNCHANGED <<state, prev, invoked, escaped, calls, fin>>

NextKeywords == GenerateSearchKeywords

SpecKeywords == InitKeywords /\ [][NextKeywords]_vars

RECURSIVE FirstOccurrences(_, _)
FirstOccurrences(keywords, seen) ==
    IF keywords = <<>> THEN seen
    ELSE FirstOccurrences(Tail(keywords),
                          IF Strip(Head(keywords)) = "" \/ Strip(Head(keywords)) \in Range(seen)
                          THEN seen ELSE Append(seen, Strip(Head(keywords))))

\* C27: the search term is determined by the profile alone: it is the first
\* three keywords in profile order (top skills, then recent positions, then
\* recent technologies)
C27_SearchTermInProfileOrder ==
    fout.set =>
        LET profile == fin.val
            recent == Take(profile.experience, 2)
            in_order == FirstOccurrences(
                            Take(profile.skills, 5)
                            \o [i \in 1..Len(recent) |-> recent[i].position]
                            \o Flatten([i \in 1..Len(recent) |-> Take(recent[i].technologies_used, 3)]),
                            <<>>)
        IN fout.val.search_term.items = Take(in_order, 3)

(***************************************************************************)
(* The projects block of a resume as a pure function of the profile's      *)
(* projects and the SkillMatch list.                                       *)
(***************************************************************************)
MaxProjects == 4

ProjectNames == <<"P1", "P2", "P3", "P4", "P5", "P6">>

TechnologyLists ==
    {<<>>, << <<"Python">> >>, << <<"Python">>, <<"Docker">> >>, << <<"Java", "Script">> >>}

\* the i-th project of a list has the i-th name
ProjectLists ==
    {[i \in 1..Len(techs) |-> [name |-> ProjectNames[((i - 1) % Len(ProjectNames)) + 1],
                               description |-> "d",
                               technologies_used |-> techs[i],
                               url |-> NoneVal,
                               achievements |-> <<>>]] :
        techs \in SeqsUpTo(TechnologyLists, MaxProjects)}

ProjectMatchLists ==
    {<<>>,
     <<[skill |-> <<"Java">>, user_has_skill |-> TRUE, match_score |-> 9]>>,
     <<[skill |-> <<"python">>, user_has_skill |-> TRUE, match_score |-> 9],
       [skill |-> <<"Docker">>, user_has_skill |-> TRUE, match_score |-> 5]>>,
     <<[skill |-> <<"Python">>, user_has_skill |-> FALSE, match_score |-> 2],
       [skill |-> <<"Docker">>, user_has_skill |-> TRUE, match_score |-> 9]>>}

InitProjects ==
    /\ fin \in {Some([user_profile |-> [PlainProfile EXCEPT !.projects = projects],
                      skill_matches |-> skill_matches]) :
                   projects \in ProjectLists, skill_matches \in ProjectMatchLists}
    /\ fout = NoneVal
    /\ pc = "create_projects_section"
    /\ state = IdleState
    /\ prev = IdleState
    /\ invoked = <<>>
    /\ escaped = FALSE
    /\ calls = <<>>

CreateProjectsSection ==
    /\ pc = "create_projects_section"
    /\ fout' = Some(create_projects_section(fin.val.user_profile, fin.val.skill_matches))
    /\ pc' = "returned"
    /\ UNCHANGED <<state, prev, invoked, escaped, calls, fin>>

NextProjects == CreateProjectsSection

SpecProjects == InitProjects /\ [][NextProjects]_vars

\* C28: the projects block lists at most 3 projects: those with the highest
\* count of technologies that overlap a matched skill, in descending count,
\* projects of equal count in their original profile order; with 3 or fewer
\* projects all are listed
C28_TopThreeProjects ==
    fout.set =>
        LET projects == fin.val.user_profile.projects
            skill_matches == fin.val.skill_matches
            listed == fout.val.content
            Overlaps(tech) == \E m \in 1..Len(skill_matches) :
                                 /\ skill_matches[m].user_has_skill
                                 /\ Contains(LowerText(tech), LowerText(skill_matches[m].skill))
            Count(i) == Cardinality({t \in 1..Len(projects[i].technologies_used) :
                                        Overlaps(projects[i].technologies_used[t])})
            \* project i goes before project j
            Before(i, j) == Count(i) > Count(j) \/ (Count(i) = Count(j) /\ i < j)
            Index(k) == CHOOSE i \in 1..Len(projects) : projects[i].name = listed[k].name
            Listed == {Index(k) : k \in 1..Len(listed)}
        IN /\ Len(listed) = IF Len(projects) <= 3 THEN Len(projects) ELSE 3
           /\ \A k \in 1..Len(listed) :
                /\ \E i \in 1..Len(projects) : projects[i].name = listed[k].name
                /\ listed[k].technologies = projects[Index(k)].technologies_used
           /\ \A k, l \in 1..Len(listed) : k < l => Before(Index(k), Index(l))
           /\ \A i \in Listed, j \in (1..Len(projects)) \ Listed : Before(i, j)

C28_Witness ==
    /\ fout.set
    /\ Len(fin.val.user_profile.projects) = 4
    /\ Len(fin.val.skill_matches) = 2
    /\ [k \in 1..Len(fout.val.content) |-> fout.val.content[k].name] = <<"P3", "P2", "P4">>
    /\ Len(fin.val.user_profile.projects[2].technologies_used) = 1
    /\ Len(fin.val.user_profile.projects[4].technologies_used) = 1

\* C29: when the cover letter stage completes, generated_cover_letters holds
\* exactly the letters of the job_skill_matches entries whose match_percentage
\* is >= match_threshold (0 when unset), one per entry, in entry order; when
\* no letter passes, the stage stores an empty list, still appends
\* "cover_letter_generation" and appends no error
C29_LettersFilteredByThreshold ==
    (/\ invoked # <<>> /\ Last(invoked) = "generate_cover_letter"
     /\ "cover_letter_generation" \in Range(state.step_completed))
    => LET entries == prev.job_skill_matches.val
           letters == state.generated_cover_letters.val
           threshold == IF prev.match_threshold.set THEN prev.match_threshold.val ELSE <<0, 1>>
           \* sum * 100 / (10 * n) >= t[1] / t[2], and 0 >= t for an empty list
           Passes(i) ==
               LET n == Len(entries[i].skill_matches)
               IN IF n = 0 THEN threshold[1] <= 0
                  ELSE MatchedTotal(entries[i].skill_matches) * 10 * threshold[2] >= threshold[1] * n
           Pass == {i \in 1..Len(entries) : Passes(i)}
           Nth(k) == CHOOSE i \in Pass : Cardinality({j \in Pass : j < i}) = k - 1
       IN /\ Len(letters) = Cardinality(Pass)
          /\ \A k \in 1..Len(letters) :
                /\ letters[k].skill_matches = entries[Nth(k)].skill_matches
                /\ letters[k].job_description.title = entries[Nth(k)].job_listing.title
                /\ letters[k].job_description.company = entries[Nth(k)].job_listing.company
          /\ state.errors = prev.errors
          /\ state.step_completed = Append(prev.step_completed, "cover_letter_generation")

C29_Witness ==
    /\ invoked # <<>> /\ Last(invoked) = "generate_cover_letter"
    /\ prev.match_threshold = Some(Rat(50, 1))
    /\ prev.job_skill_matches.set /\ state.generated_cover_letters.set
    /\ Len(prev.job_skill_matches.val) = 2
    /\ Len(state.generated_cover_letters.val) = 1
    /\ state.generated_cover_letters.val[1].job_description.title
          = prev.job_skill_matches.val[2].job_listing.title
    /\ state.errors = <<>>

(***************************************************************************)
(* The generate command on top of the workflow that graph.py compiles: the *)
(* four stages run, then the command inspects the terminal state.          *)
(***************************************************************************)
\* the arguments that fit the initial state of the run
ArgsOf(s) ==
    [profile |-> IF s.user_profile_json.set
                 THEN [exists |-> TRUE, path |-> "profile.json", suffix |-> ".json"]
                 ELSE [exists |-> TRUE, path |-> "profile.txt", suffix |-> ".txt"],
     location |-> IF s.job_search_location.set THEN s.job_search_location.val ELSE "Remote",
     max_results |-> DefaultMaxResults,
     output |-> "resume.md",
     output_format |-> "markdown"]

\* result = workflow.invoke(initial_state), and what generate does with it
InspectTerminalState ==
    /\ pc \in {"END", "raised"}
    /\ fout' = Some(generate(ArgsOf(state),
                             IF pc = "raised"
                             THEN [kind |-> "raise", cls |-> "Exception", msg |-> "workflow failed"]
                             ELSE [kind |-> "state",
                                   state |-> [errors |-> Some(state.errors),
                                              generated_resume |-> state.generated_resume]]))
    /\ pc' = "returned"
    /\ UNCHANGED <<state, prev, invoked, escaped, calls, fin>>

NextCommand == Next \/ InspectTerminalState

SpecCommand == Init /\ [][NextCommand]_vars

\* C30: after a run of the workflow in which every stage completes without
\* error, the terminal state holds the artifact the generate command requires
\* (generated_resume), so the command writes the output file and does not
\* abort
C30_CleanRunWritesOutput ==
    (/\ pc = "returned"
     /\ state.errors = <<>>
     /\ Len(state.step_completed) = Len(Nodes))
    => /\ state.generated_resume.set
       /\ fout.val.written.set
       /\ ~fout.val.aborted

====
